---------------------------- MODULE Spec2Model ----------------------------
(***************************************************************************)
(* A model of the Raft core of atomix/raft-storage: the leader's appender  *)
(* (pkg/atomix/raft/appender.go), the follower role                        *)
(* (pkg/atomix/raft/roles/follower.go) and the parts of the server they    *)
(* call.                                                                   *)
(*                                                                         *)
(* The module holds several specifications over one set of variables:      *)
(*   SpecAppender  one leader's raftAppender: append(entry) callers and    *)
(*                 the commit-processing loop fed by MemberCommit events.  *)
(*   SpecQuery     SpecAppender plus the state machine's apply loop and a  *)
(*                 client that issues SEQUENTIAL queries.                  *)
(*   Spec          a cluster of three members: poll rounds, elections,     *)
(*                 replication by the member appenders, step-down.         *)
(*   SpecTerm      one member's term and the handlers that set it.         *)
(* A specification leaves the variables of the other parts unchanged.      *)
(***************************************************************************)
EXTENDS Integers, Sequences, FiniteSets, TLC

(***************************************************************************)
(* Bounds of the model.                                                    *)
(***************************************************************************)
\* The largest number of peers (members other than the leader) of a leader.
MaxPeers == 3
\* The largest log index.
MaxIndex == 3
\* The largest number of peers in the specification with a querying client.
MaxQueryPeers == 1
\* The largest term a member reaches.
MaxTerm == 3
\* The largest length of a member's log in the cluster specification.
MaxLogLen == 2
\* The number of goroutines handling responses and requests that carry a term.
MaxHandlers == 2
\* The largest number of members of the cluster a follower belongs to.
MaxMembers == 3
\* The number of goroutines that call heartbeat().
MaxCallers == 1
\* The last tick of the clock.
MaxTime == 4
\* The largest length of the leader's log in the member-appender specification.
MaxMemberLog == 2
\* The largest number of requests to one peer that are in flight.
MaxInflight == 2

(***************************************************************************)
(* State of one leader's raftAppender and of the server fields it writes.  *)
(***************************************************************************)
VARIABLES
    members,          \* raftAppender.members: the peers' ids
    commitIndexes,    \* raftAppender.commitIndexes: peer id -> match index
    commitChannels,   \* raftAppender.commitChannels: the indexes with a channel
    srvCommitIndex,   \* RaftServer.commitIndex of the leader
    logLastIndex,     \* last index of the leader's log
    appendCalls,      \* index -> position of the append(entry) call for it
    setCalls,         \* history: the arguments of setCommitIndex, in call order
    notified          \* history: the indexes sent on commit channels, in order

VARIABLES
    appliedIndex,     \* member -> last index applied to its state machine
    clientIndex,      \* the index returned by the client's last command
    queryResult       \* the last query: <<lastIndex sent, index of the state read, member>>

(***************************************************************************)
(* State of a cluster of three members (the cluster of TestRaftCluster).   *)
(***************************************************************************)
VARIABLES
    term,             \* member -> currentTerm
    votedFor,         \* member -> the member voted for in currentTerm, or None
    leader,           \* member -> the leader it knows, or None
    role,             \* member -> "follower" | "candidate" | "leader"
    log,              \* member -> its log, a sequence of entries
    commitIndex,      \* member -> RaftServer.commitIndex
    votes,            \* candidate -> the members that granted it their vote
    appender,         \* leader -> peer -> its memberAppender's fields
    peerIndexes,      \* leader -> raftAppender.commitIndexes
    stepDown,         \* member -> a "go becomeFollower()" has not run yet
    elected,          \* history: <<term, member>> of every election won
    committed         \* history: the entries leaders committed

clusterVars == <<term, votedFor, leader, role, log, commitIndex, votes,
                 appender, peerIndexes, stepDown, elected, committed>>

(***************************************************************************)
(* State of one member's term and of the handlers that set it.             *)
(***************************************************************************)
VARIABLES
    srvTerm,          \* the member's currentTerm
    handler,          \* goroutine -> where it is in its handler
    termSets,         \* history: the initial term and the values set since
    srvRole,          \* the role the member holds: "leader" | "follower"
    srvLeader,        \* the leader the member knows, or None
    srvVotedFor,      \* the member's vote in its term, or None
    srvSetRole,       \* a "go becomeFollower()" / "go SetRole(follower)" has not run yet
    seenTerm          \* history: the highest term handled in a rejected append
                      \* response or a vote request

termVars == <<srvTerm, handler, termSets, srvRole, srvLeader, srvVotedFor,
              srvSetRole, seenTerm>>

appenderVars == <<members, commitIndexes, commitChannels, srvCommitIndex,
                  logLastIndex, appendCalls, setCalls, notified>>
queryVars == <<appliedIndex, clientIndex, queryResult>>

(***************************************************************************)
(* State of one member in the Follower role: its heartbeat timer, the      *)
(* server's read-write lock and one round of poll requests.                *)
(***************************************************************************)
VARIABLES
    nMembers,         \* len(raft.Members()): the size of the cluster
    fRole,            \* the role the server holds
    setRole,          \* the roles of the "go SetRole(...)" calls not run yet
    active,           \* FollowerRole.active
    raftLeader,       \* the server knows a leader: raft.Leader() != ""
    lock,             \* the server's RWMutex: [writer, readers]
    heartbeatTimer,   \* FollowerRole.heartbeatTimer: "nil" | "armed" | "fired"
    heartbeatStop,    \* number of values buffered in FollowerRole.heartbeatStop
    watch,            \* the goroutine that selects on the timer and the stop channel
    pc,               \* goroutine -> where it is
    pollVotes,        \* the votes channel of the poll round: a sequence of booleans
    polls,            \* peer -> state of its poll request
    acceptCount,      \* acceptCount of the vote-counting goroutine
    rejectCount,      \* rejectCount of the vote-counting goroutine
    accepted,         \* history: polls accepted at the term they were sent with
    transitions       \* history: number of "go SetRole(candidate)" of the poll round

followerVars == <<nMembers, fRole, setRole, active, raftLeader, lock,
                  heartbeatTimer, heartbeatStop, watch, pc, pollVotes, polls,
                  acceptCount, rejectCount, accepted, transitions>>

(***************************************************************************)
(* State of the leader's raftAppender around its mutex and its times.      *)
(***************************************************************************)
VARIABLES
    now,              \* the clock
    mu,               \* raftAppender.mu: its holder, or None
    loop,             \* where the goroutine of start() and processCommits is
    commitTimes,      \* raftAppender.commitTimes: peer id -> time
    lastQuorumTime,   \* raftAppender.lastQuorumTime
    heartbeatFutures, \* raftAppender.heartbeatFutures
    hb,               \* caller of heartbeat() -> where it is, and when it called
    commitCh,         \* the events member appenders wait to send on commitCh
    failCh,           \* the events member appenders wait to send on failCh
    qLeader           \* the server has itself as leader

quorumVars == <<now, mu, loop, commitTimes, lastQuorumTime, heartbeatFutures,
                hb, commitCh, failCh, qLeader>>

(***************************************************************************)
(* State of one memberAppender of the leader and of its peer.              *)
(***************************************************************************)
VARIABLES
    mLog,             \* the leader's log: a sequence of entries
    mSnapshot,        \* index of the leader's current snapshot, 0 for none
    pLog,             \* the peer's log: [base, entries], entries after base
    pSnapshot,        \* index of the snapshot the peer holds
    ma,               \* memberAppender: [nextIndex, matchIndex, prevTerm]
    snapshotIndex,    \* memberAppender.snapshotIndex
    appending,        \* memberAppender.appending
    rpcs,             \* the requests in flight to the peer
    appendCh,         \* the values goroutines wait to send on appendCh
    installs,         \* history: the snapshot indexes installed, in order
    queue,            \* memberAppender.queue: the entries not yet sent
    readerIndex,      \* index of the entry memberAppender.reader read last
    mFailures,        \* memberAppender.failureCount
    mPanic            \* the appender read a position no request entry has

memberVars == <<mLog, mSnapshot, pLog, pSnapshot, ma, snapshotIndex,
                appending, rpcs, appendCh, installs, queue, readerIndex,
                mFailures, mPanic>>

(***************************************************************************)
(* State of one memorySnapshotStore and of the snapshots created in it.    *)
(***************************************************************************)
VARIABLES
    snapshots,        \* memorySnapshotStore.snapshots: index -> snapshot
    currentSnapshot   \* index of memorySnapshotStore.currentSnapshot, 0: nil

snapshotVars == <<snapshots, currentSnapshot>>

(***************************************************************************)
(* State of a leader's raftAppender with one memberAppender worker: the    *)
(* goroutines of start, stop and the worker, the worker's channels and     *)
(* its failure count.                                                      *)
(***************************************************************************)
VARIABLES
    wmu,              \* raftAppender.mu: None, or the call that holds it
    wloop,            \* position of start() and its processCommits loop
    wstop,            \* position of the call of raftAppender.stop()
    worker,           \* position of the goroutine of memberAppender.start()
    wActive,          \* memberAppender.active
    closed,           \* entryCh, appendCh and heartbeatCh are closed
    wAppending,       \* memberAppender.appending
    failureCount,     \* memberAppender.failureCount
    firstFailureTime, \* memberAppender.firstFailureTime
    wNow,             \* the clock
    tasks,            \* the goroutines of append() and sendAppendRequest
    wcaller,          \* position of a caller of append() or heartbeat()
    wInstallDue,      \* the current snapshot is ahead of the peer
    wWaiting,         \* history: what the last attempt ended with
    wlock             \* the server's RWMutex: [writer, readers]

workerVars == <<wmu, wloop, wstop, worker, wActive, closed, wAppending,
                failureCount, firstFailureTime, wNow, tasks, wcaller,
                wInstallDue, wWaiting, wlock>>

\* The variables outside each part of the model.
notAppender == <<clusterVars, termVars, followerVars, quorumVars, memberVars,
                 snapshotVars, workerVars>>
notCluster == <<appenderVars, queryVars, termVars, followerVars, quorumVars,
                memberVars, snapshotVars, workerVars>>
notTerm == <<appenderVars, queryVars, clusterVars, followerVars, quorumVars,
             memberVars, snapshotVars, workerVars>>
notFollower == <<appenderVars, queryVars, clusterVars, termVars, quorumVars,
                 memberVars, snapshotVars, workerVars>>
notQuorum == <<appenderVars, queryVars, clusterVars, termVars, followerVars,
               memberVars, snapshotVars, workerVars>>
notMember == <<appenderVars, queryVars, clusterVars, termVars, followerVars,
               quorumVars, snapshotVars, workerVars>>
notSnapshot == <<appenderVars, queryVars, clusterVars, termVars, followerVars,
                 quorumVars, memberVars, workerVars>>
notWorker == <<appenderVars, queryVars, clusterVars, termVars, followerVars,
               quorumVars, memberVars, snapshotVars>>
vars == <<appenderVars, queryVars, clusterVars, termVars, followerVars,
          quorumVars, memberVars, snapshotVars, workerVars>>

\* The id of the local member (the leader) where a member id is needed.
Self == 0

(***************************************************************************)
(* Helpers: Go's map with its zero default, the values of a map, sort.     *)
(***************************************************************************)
\* m[k] of a Go map of integers: the zero value when k is absent.
MapGet(m, k) == IF k \in DOMAIN m THEN m[k] ELSE 0

\* m[k] = v of a Go map.
MapPut(m, k, v) == [x \in (DOMAIN m) \cup {k} |-> IF x = k THEN v ELSE m[x]]

RECURSIVE MapValues(_)
\* The values of a map in some iteration order (for _, v := range m).
MapValues(m) ==
    IF DOMAIN m = {} THEN <<>>
    ELSE LET k == CHOOSE x \in DOMAIN m : TRUE
         IN  <<m[k]>> \o MapValues([x \in (DOMAIN m) \ {k} |-> m[x]])

RECURSIVE InsertSorted(_, _)
InsertSorted(x, s) ==
    IF s = <<>> THEN <<x>>
    ELSE IF x <= Head(s) THEN <<x>> \o s
    ELSE <<Head(s)>> \o InsertSorted(x, Tail(s))

RECURSIVE SortAscending(_)
\* sort.Slice(s, func(i, j) bool { return s[i] < s[j] })
SortAscending(s) ==
    IF s = <<>> THEN <<>> ELSE InsertSorted(Head(s), SortAscending(Tail(s)))

\* make([]int64, n) filled from the map's values, then sorted: the slice
\* `indexes` of raftAppender.commitIndex. Peers without an entry stay 0.
SortedIndexes(cis, ms) ==
    LET vals == MapValues(cis)
        n    == Cardinality(ms)
    IN  SortAscending(vals \o [i \in 1..(n - Len(vals)) |-> 0])

\* A plausible slip: the highest reported index instead of the median.
QuorumIndex_Highest(cis, ms) == SortedIndexes(cis, ms)[Cardinality(ms)]

\* indexes[len(a.members)/2]  (Go indexes from 0)
QuorumIndex(cis, ms) == SortedIndexes(cis, ms)[(Cardinality(ms) \div 2) + 1]

\* A plausible slip: the loop starts at commitIndex instead of commitIndex + 1.
CommitLoop_FromOld(from, to) ==
    IF to >= from THEN [k \in 1..(to - from + 1) |-> from + k - 1] ELSE <<>>

\* for i := a.server.commitIndex + 1; i <= commitIndex; i++: the values of i.
CommitLoop(from, to) ==
    IF to > from THEN [k \in 1..(to - from) |-> from + k] ELSE <<>>

SeqRange(s) == {s[k] : k \in 1..Len(s)}

(***************************************************************************)
(* The cluster: three members exchanging Poll, Vote and Append RPCs.  An   *)
(* RPC is one step: the request is built, handled by the peer and the      *)
(* response handled by the sender.                                         *)
(***************************************************************************)
\* The members of TestRaftCluster.
Server == {"foo", "bar", "baz"}

\* The empty MemberID: no leader known, no vote cast.
None == ""

Peers(m) == Server \ {m}

\* floor(N/2) + 1
Quorum(n) == (n \div 2) + 1

Max(a, b) == IF a >= b THEN a ELSE b

\* A log entry: its term, the leader that appended it and the index it was
\* appended at.
Entry(t, m, i) == [term |-> t, by |-> m, index |-> i]

LastTerm(l) == IF Len(l) = 0 THEN 0 ELSE l[Len(l)].term

\* The fields of a memberAppender the leader creates for a peer.
NewMemberAppender(lastIndex) ==
    [nextIndex |-> lastIndex + 1, matchIndex |-> 0, prevTerm |-> 0]

InitCluster ==
    /\ term = [m \in Server |-> 0]
    /\ votedFor = [m \in Server |-> None]
    /\ leader = [m \in Server |-> None]
    /\ role = [m \in Server |-> "follower"]
    /\ log = [m \in Server |-> <<>>]
    /\ commitIndex = [m \in Server |-> 0]
    /\ votes = [m \in Server |-> {}]
    /\ appender = [m \in Server |-> <<>>]
    /\ peerIndexes = [m \in Server |-> <<>>]
    /\ stepDown = [m \in Server |-> FALSE]
    /\ elected = {}
    /\ committed = {}

(***************************************************************************)
(* The term of one member.  Three handlers set it, each in its own         *)
(* goroutine: the poll response (FollowerRole.sendPollRequests), a         *)
(* rejected append response (memberAppender.handleAppendResponse) and a    *)
(* vote request (FollowerRole.Vote).  A section under the server's lock is *)
(* one step.                                                               *)
(***************************************************************************)
Handlers == 1..MaxHandlers

Idle == [pc |-> "idle", sent |-> 0, resp |-> 0]

\* The member is a leader that voted for itself.
InitTerm ==
    /\ srvTerm = 0
    /\ handler = [h \in Handlers |-> Idle]
    /\ termSets = <<0>>
    /\ srvRole = "leader"
    /\ srvLeader = "self"
    /\ srvVotedFor = "self"
    /\ srvSetRole = FALSE
    /\ seenTerm = 0

\* A plausible slip: the term is set without testing it again.
Retest_Skipped(responseTerm, current) == TRUE

\* The test repeated under the write lock.
Retest(responseTerm, current) == responseTerm > current

\* setTerm: the new term is stored and the vote of the old term is dropped.
SetTerm(t) ==
    /\ srvTerm' = t
    /\ termSets' = Append(termSets, t)
    /\ srvVotedFor' = None

\* A plausible slip: only the term is set.
StepDown_TermOnly(t) ==
    /\ srvTerm' = t
    /\ termSets' = Append(termSets, t)
    /\ UNCHANGED <<srvVotedFor, srvLeader, srvSetRole>>

\* handleAppendResponse on a higher term: setTerm, setLeader("") and
\* "go becomeFollower()".
StepDown(t) ==
    /\ SetTerm(t)
    /\ srvLeader' = None
    /\ srvSetRole' = TRUE

\* The poll goroutine of a follower reads the term under the read lock and
\* sends it.
PollSend(h) ==
    /\ handler[h].pc = "idle"
    /\ srvRole = "follower"
    /\ handler' = [handler EXCEPT
                     ![h] = [pc |-> "poll", sent |-> srvTerm, resp |-> 0]]
    /\ UNCHANGED <<srvTerm, termSets, srvRole, srvLeader, srvVotedFor,
                   srvSetRole, seenTerm, notTerm>>

\* The poll response arrives: its term is compared with the term sent.
PollResponse(h, t) ==
    /\ handler[h].pc = "poll"
    /\ handler' = [handler EXCEPT
                     ![h] = IF t > handler[h].sent
                            THEN [handler[h] EXCEPT !.pc = "pollSet",
                                                    !.resp = t]
                            ELSE Idle]
    /\ UNCHANGED <<srvTerm, termSets, srvRole, srvLeader, srvVotedFor,
                   srvSetRole, seenTerm, notTerm>>

\* Under the write lock: the term is set if the response's is still higher.
PollSetTerm(h) ==
    /\ handler[h].pc = "pollSet"
    /\ IF Retest(handler[h].resp, srvTerm)
       THEN SetTerm(handler[h].resp)
       ELSE UNCHANGED <<srvTerm, termSets, srvVotedFor>>
    /\ handler' = [handler EXCEPT ![h] = Idle]
    /\ UNCHANGED <<srvRole, srvLeader, srvSetRole, seenTerm, notTerm>>

\* A rejected append response of term t reaches a member appender of the
\* leader: under the read lock the term is found lower.
AppendRejected(h, t) ==
    /\ handler[h].pc = "idle"
    /\ srvRole = "leader"
    /\ t > srvTerm
    /\ handler' = [handler EXCEPT
                     ![h] = [pc |-> "appendSet", sent |-> 0, resp |-> t]]
    /\ UNCHANGED <<srvTerm, termSets, srvRole, srvLeader, srvVotedFor,
                   srvSetRole, seenTerm, notTerm>>

\* Under the write lock: if the response's term is still higher the term is
\* set, the leader cleared and the step-down started.
AppendSetTerm(h) ==
    /\ handler[h].pc = "appendSet"
    /\ IF Retest(handler[h].resp, srvTerm)
       THEN StepDown(handler[h].resp)
       ELSE UNCHANGED <<srvTerm, termSets, srvVotedFor, srvLeader, srvSetRole>>
    /\ seenTerm' = Max(seenTerm, handler[h].resp)
    /\ handler' = [handler EXCEPT ![h] = Idle]
    /\ UNCHANGED <<srvRole, notTerm>>

\* A vote request of term t to a follower, handled under the write lock:
\* updateTermAndLeader sets a higher term, clears the leader and the old
\* vote, and the handler runs "go SetRole(follower)"; handleVote then
\* grants the vote or not.
VoteRequest(h, t, granted) ==
    /\ handler[h].pc = "idle"
    /\ srvRole = "follower"
    /\ IF t > srvTerm
       THEN /\ srvTerm' = t
            /\ termSets' = Append(termSets, t)
            /\ srvLeader' = None
            /\ srvSetRole' = TRUE
            /\ srvVotedFor' = IF granted THEN "candidate" ELSE None
       ELSE /\ UNCHANGED <<srvTerm, termSets, srvLeader, srvSetRole>>
            /\ srvVotedFor' = IF granted /\ t = srvTerm /\ srvVotedFor = None
                              THEN "candidate" ELSE srvVotedFor
    /\ seenTerm' = Max(seenTerm, t)
    /\ UNCHANGED <<handler, srvRole, notTerm>>

\* The scheduled step-down runs: the member holds the Follower role.
SetRoleFollower ==
    /\ srvSetRole
    /\ srvSetRole' = FALSE
    /\ srvRole' = "follower"
    /\ UNCHANGED <<srvTerm, handler, termSets, srvLeader, srvVotedFor,
                   seenTerm, notTerm>>

NextTerm ==
    \/ \E h \in Handlers : PollSend(h)
    \/ \E h \in Handlers, t \in 0..MaxTerm : PollResponse(h, t)
    \/ \E h \in Handlers : PollSetTerm(h)
    \/ \E h \in Handlers, t \in 1..MaxTerm : AppendRejected(h, t)
    \/ \E h \in Handlers : AppendSetTerm(h)
    \/ \E h \in Handlers, t \in 0..MaxTerm, granted \in BOOLEAN :
          VoteRequest(h, t, granted)
    \/ SetRoleFollower

\* newMemberAppender: nextIndex is the log's last index + 1, the other
\* fields are zero.
NewAppender(lastIndex) ==
    [nextIndex |-> lastIndex + 1, matchIndex |-> 0, prevTerm |-> 0]

\* The member appender before start(), over an empty log.
InitMemberIdle ==
    /\ mLog = <<>>
    /\ mSnapshot = 0
    /\ pLog = [base |-> 0, entries |-> <<>>]
    /\ pSnapshot = 0
    /\ ma = NewAppender(0)
    /\ snapshotIndex = 0
    /\ appending = FALSE
    /\ rpcs = <<>>
    /\ appendCh = <<>>
    /\ installs = <<>>
    /\ queue = <<>>
    /\ readerIndex = 0
    /\ mFailures = 0
    /\ mPanic = FALSE

\* newMemorySnapshotStore: no snapshot, currentSnapshot is nil.
InitSnapshot ==
    /\ snapshots = <<>>
    /\ currentSnapshot = 0

\* The goroutines that call heartbeat().
Callers == 1..MaxCallers

\* server.electionTimeout, in ticks of the clock.
ElectionTimeout == 1

\* time.Now() of newAppender.
Created == 1

\* The events of commitCh and failCh: a member and a time.
Events == [member : 1..MaxPeers, time : 1..MaxTime]

\* The zero value of time.Time.
ZeroTime == 0

\* heartbeatFuture{}: the future heartbeat() stores, with no channel and no time.
ZeroFuture == [ch |-> "nil", time |-> ZeroTime]

\* The goroutines a member appender has started that have not returned.
MaxTasks == 2

\* The failures counted for the peer of the member appender.
MaxMemberFailures == 1

\* newAppender and newMemberAppender before start(): no goroutine runs, the
\* channels are open, the counters are zero; installDue tells whether the
\* snapshot store holds a snapshot the peer does not have.
InitWorker(installDue) ==
    /\ wmu = None
    /\ wloop = "new"
    /\ wstop = "idle"
    /\ worker = "new"
    /\ wActive = FALSE
    /\ closed = FALSE
    /\ wAppending = FALSE
    /\ failureCount = 0
    /\ firstFailureTime = ZeroTime
    /\ wNow = Created
    /\ tasks = [k \in 1..MaxTasks |-> [pc |-> "none", start |-> ZeroTime]]
    /\ wcaller = "idle"
    /\ wInstallDue \in installDue
    /\ wWaiting = "no"
    /\ wlock = [writer |-> None, readers |-> {}]

\* commitTime of raftAppender.commitTime: the members' times in an array of
\* len(members) zeros, sorted; the element at len(members) / 2.
QuorumTime(times, ms) == SortedIndexes(times, ms)[(Cardinality(ms) \div 2) + 1]

\* The appender before start(), with no event and no caller.
InitQuorumIdle ==
    /\ now = Created
    /\ mu = None
    /\ loop = "new"
    /\ commitTimes = <<>>
    /\ lastQuorumTime = Created
    /\ heartbeatFutures = <<>>
    /\ hb = [c \in Callers |-> [pc |-> "idle", time |-> ZeroTime]]
    /\ commitCh = {}
    /\ failCh = {}
    /\ qLeader = TRUE

\* The goroutines that call resetHeartbeatTimeout or count votes.
Goroutines == {"start", "append", "timeout", "count"}

\* The server's RWMutex with no holder.
Unlocked == [writer |-> None, readers |-> {}]

\* The role's state before FollowerRole.Start, in a cluster of one member.
InitRoleIdle ==
    /\ nMembers = 1
    /\ fRole = "follower"
    /\ setRole = {}
    /\ active = FALSE
    /\ raftLeader = FALSE
    /\ lock = Unlocked
    /\ heartbeatTimer = "nil"
    /\ heartbeatStop = 0
    /\ watch = "none"
    /\ pc = [g \in Goroutines |-> "idle"]
    /\ pollVotes = <<>>
    /\ polls = <<>>
    /\ acceptCount = 0
    /\ rejectCount = 0
    /\ accepted = 0
    /\ transitions = 0

(***************************************************************************)
(* Initial state of the appender: newAppender, over a log that may already *)
(* hold entries (and a commit index) from the member's time as a follower. *)
(***************************************************************************)
InitAppender(maxPeers) ==
    /\ \E k \in 0..maxPeers : members = 1..k
    /\ commitIndexes = <<>>
    /\ commitChannels = {}
    /\ \E l \in 0..1 :
          /\ logLastIndex = l
          /\ \E c \in 0..l : srvCommitIndex = c
    /\ appendCalls = [i \in 1..MaxIndex |-> "none"]
    /\ setCalls = <<>>
    /\ notified = <<>>

InitQuery ==
    /\ appliedIndex = [m \in {Self} \cup members |-> 0]
    /\ clientIndex = 0
    /\ queryResult = <<0, 0, Self>>

(***************************************************************************)
(* The leader's command handler persists an entry and calls append(entry). *)
(* Handlers run concurrently: a call may be overtaken by a later one.      *)
(***************************************************************************)
Command ==
    /\ logLastIndex < MaxIndex
    /\ logLastIndex' = logLastIndex + 1
    /\ appendCalls' = [appendCalls EXCEPT ![logLastIndex + 1] = "called"]
    /\ UNCHANGED <<members, commitIndexes, commitChannels, srvCommitIndex,
                   setCalls, notified, queryVars, notAppender>>

\* raftAppender.append with no members: commit the entry and return nil.
AppendSingle(i) ==
    /\ appendCalls[i] = "called"
    /\ members = {}
    /\ srvCommitIndex' = i
    /\ setCalls' = Append(setCalls, i)
    /\ appendCalls' = [appendCalls EXCEPT ![i] = "ok"]
    /\ UNCHANGED <<members, commitIndexes, commitChannels, logLastIndex,
                   notified, queryVars, notAppender>>

\* A plausible slip: return without waiting on the commit channel.
AppendEnqueue_NoWait(i) ==
    /\ appendCalls[i] = "called"
    /\ members # {}
    /\ commitChannels' = commitChannels \cup {i}
    /\ appendCalls' = [appendCalls EXCEPT ![i] = "ok"]
    /\ UNCHANGED <<members, commitIndexes, srvCommitIndex, logLastIndex,
                   setCalls, notified, queryVars, notAppender>>

\* raftAppender.append with members: register the commit channel, hand the
\* entry to every member appender, then block on the channel.
AppendEnqueue(i) ==
    /\ appendCalls[i] = "called"
    /\ members # {}
    /\ commitChannels' = commitChannels \cup {i}
    /\ appendCalls' = [appendCalls EXCEPT ![i] = "waiting"]
    /\ UNCHANGED <<members, commitIndexes, srvCommitIndex, logLastIndex,
                   setCalls, notified, queryVars, notAppender>>

\* processCommits receives a memberCommit: raftAppender.commit, commitIndex.
\* The send ch <- i completes when the caller of append receives it, and
\* that caller then returns nil.
MemberCommit(member, index) ==
    /\ member \in members
    /\ index > MapGet(commitIndexes, member)
    /\ LET cis     == MapPut(commitIndexes, member, index)
           visited == CommitLoop(srvCommitIndex, QuorumIndex(cis, members))
           sent    == SelectSeq(visited, LAMBDA i : i \in commitChannels)
       IN  /\ commitIndexes' = cis
           /\ srvCommitIndex' =
                 IF visited = <<>> THEN srvCommitIndex ELSE visited[Len(visited)]
           /\ setCalls' = setCalls \o visited
           /\ notified' = notified \o sent
           /\ appendCalls' = [i \in DOMAIN appendCalls |->
                                IF i \in SeqRange(sent) /\ appendCalls[i] = "waiting"
                                THEN "ok" ELSE appendCalls[i]]
    /\ UNCHANGED <<members, commitChannels, logLastIndex, queryVars, notAppender>>

NextAppender ==
    \/ Command
    \/ \E i \in 1..MaxIndex : AppendSingle(i)
    \/ \E i \in 1..MaxIndex : AppendEnqueue(i)
    \/ \E m \in 1..MaxPeers, i \in 0..MaxIndex : MemberCommit(m, i)

InitSpecAppender ==
    /\ InitAppender(MaxPeers) /\ InitQuery /\ InitCluster /\ InitTerm
    /\ InitRoleIdle
    /\ InitQuorumIdle
    /\ InitMemberIdle
    /\ InitWorker({FALSE})
    /\ InitSnapshot

SpecAppender == InitSpecAppender /\ [][NextAppender]_vars

(***************************************************************************)
(* The state machine manager and a client session (section 4.6 of the      *)
(* specification): entries are applied in index order up to the commit     *)
(* index; a SEQUENTIAL query waits until appliedIndex >= lastIndex.        *)
(***************************************************************************)
Min(a, b) == IF a <= b THEN a ELSE b

\* The commit index member m knows: the leader's own, or for a peer what an
\* AppendRequest told it, min(leaderCommit, its last index).
KnownCommit(m) ==
    IF m = Self THEN Min(srvCommitIndex, logLastIndex)
    ELSE Min(srvCommitIndex, MapGet(commitIndexes, m))

Apply(m) ==
    /\ m \in {Self} \cup members
    /\ appliedIndex[m] < KnownCommit(m)
    /\ appliedIndex' = [appliedIndex EXCEPT ![m] = appliedIndex[m] + 1]
    /\ UNCHANGED <<notAppender, appenderVars, clientIndex, queryResult>>

\* The leader answers the command at index i once append returned and the
\* entry is applied; the response carries the index.
CommandResponse(i) ==
    /\ appendCalls[i] = "ok"
    /\ appliedIndex[Self] >= i
    /\ i > clientIndex
    /\ clientIndex' = i
    /\ UNCHANGED <<notAppender, appenderVars, appliedIndex, queryResult>>

\* A plausible slip: the query runs without waiting for the applied index.
QueryReady_NoWait(m, lastIndex) == TRUE

\* "the member waits until appliedIndex >= lastIndex"
QueryReady(m, lastIndex) == appliedIndex[m] >= lastIndex

\* A SEQUENTIAL query sent to member m with the client's last index.
Query(m) ==
    /\ m \in {Self} \cup members
    /\ QueryReady(m, clientIndex)
    /\ queryResult' = <<clientIndex, appliedIndex[m], m>>
    /\ UNCHANGED <<notAppender, appenderVars, appliedIndex, clientIndex>>

NextQuery ==
    \/ \E m \in {Self} \cup (1..MaxPeers) : Apply(m)
    \/ \E i \in 1..MaxIndex : CommandResponse(i)
    \/ \E m \in {Self} \cup (1..MaxPeers) : Query(m)

\* The client of TestRaftNode: one command at a time, the next one sent after
\* the response to the previous one.
ClientCommand ==
    /\ \A i \in 1..MaxIndex :
          appendCalls[i] = "none" \/ (appendCalls[i] = "ok" /\ clientIndex >= i)
    /\ Command

NextSpecQuery ==
    \/ ClientCommand
    \/ \E i \in 1..MaxIndex : AppendSingle(i)
    \/ \E i \in 1..MaxIndex : AppendEnqueue(i)
    \/ \E m \in 1..MaxPeers, i \in 0..MaxIndex : MemberCommit(m, i)
    \/ NextQuery

InitSpecQuery ==
    /\ InitAppender(MaxQueryPeers) /\ InitQuery /\ InitCluster /\ InitTerm
    /\ InitRoleIdle
    /\ InitQuorumIdle
    /\ InitMemberIdle
    /\ InitWorker({FALSE})
    /\ InitSnapshot

SpecQuery == InitSpecQuery /\ [][NextSpecQuery]_vars

(***************************************************************************)
(* The cluster: elections.                                                 *)
(***************************************************************************)
RECURSIVE MaxOf(_)
MaxOf(S) ==
    LET x == CHOOSE y \in S : TRUE
    IN IF S = {x} THEN x ELSE Max(x, MaxOf(S \ {x}))

\* The poll and vote handlers grant only to a log at least as up to date
\* as their own.
LogUpToDate(lastIndex, lastTerm, l) ==
    \/ lastTerm > LastTerm(l)
    \/ lastTerm = LastTerm(l) /\ lastIndex >= Len(l)

\* A poll vote counts when the response is accepted and carries the term
\* of the request.
PollAccepted(m, p) ==
    /\ term[p] <= term[m]
    /\ LogUpToDate(Len(log[m]), LastTerm(log[m]), log[p])

\* The follower's heartbeat timer fires: it forgets the leader and polls its
\* peers.  The peers in R answer, the others fail and count as rejections.
\* A peer behind the request's term adopts it.  With a quorum of accepted
\* polls the follower becomes a candidate: next term, a vote for itself.
HeartbeatTimeout(m, R) ==
    /\ role[m] = "follower"
    /\ R \subseteq Peers(m)
    /\ \E sent \in {term[m]} :
       \E behind \in {{p \in R : term[p] < sent}} :
       \E seen \in {MaxOf({sent} \cup {term[p] : p \in R})} :
       \E accepts \in {Cardinality({p \in R : PollAccepted(m, p)}) + 1} :
       \E candidate \in {accepts >= Quorum(Cardinality(Server))} :
       \E newTerm \in {IF candidate THEN seen + 1 ELSE seen} :
          /\ newTerm <= MaxTerm
          /\ term' = [x \in Server |->
                        IF x = m THEN newTerm
                        ELSE IF x \in behind THEN sent ELSE term[x]]
          /\ votedFor' = [x \in Server |->
                        IF x = m
                        THEN IF candidate THEN m
                             ELSE IF seen > sent THEN None ELSE votedFor[m]
                        ELSE IF x \in behind THEN None ELSE votedFor[x]]
          /\ leader' = [x \in Server |->
                        IF x = m \/ x \in behind THEN None ELSE leader[x]]
          /\ role' = [x \in Server |->
                        IF x = m
                        THEN IF candidate THEN "candidate" ELSE "follower"
                        ELSE IF x \in behind THEN "follower" ELSE role[x]]
          /\ votes' = [x \in Server |->
                        IF x = m THEN IF candidate THEN {m} ELSE {}
                        ELSE IF x \in behind THEN {} ELSE votes[x]]
          /\ appender' = [x \in Server |->
                        IF x \in behind THEN <<>> ELSE appender[x]]
          /\ peerIndexes' = [x \in Server |->
                        IF x \in behind THEN <<>> ELSE peerIndexes[x]]
          /\ stepDown' = [x \in Server |->
                        IF x \in behind THEN FALSE ELSE stepDown[x]]
    /\ UNCHANGED <<log, commitIndex, elected, committed,
                   notCluster>>

\* The candidate's election timer fires: a new election in the next term.
CandidateTimeout(m) ==
    /\ role[m] = "candidate"
    /\ term[m] < MaxTerm
    /\ term' = [term EXCEPT ![m] = term[m] + 1]
    /\ votedFor' = [votedFor EXCEPT ![m] = m]
    /\ votes' = [votes EXCEPT ![m] = {m}]
    /\ UNCHANGED <<leader, role, log, commitIndex, appender, peerIndexes,
                   stepDown, elected, committed, notCluster>>

\* A plausible slip: the vote is granted whatever vote was cast before.
VoteGranted_IgnoreVote(t, candidate, voted, p) ==
    /\ t >= term[p]
    /\ LogUpToDate(Len(log[candidate]), LastTerm(log[candidate]), log[p])

\* handleVote: member p, whose vote in term t is voted, grants its vote.
VoteGranted(t, candidate, voted, p) ==
    /\ t >= term[p]
    /\ voted \in {None, candidate}
    /\ LogUpToDate(Len(log[candidate]), LastTerm(log[candidate]), log[p])

\* Candidate m asks peer p for its vote.  The peer adopts a higher term
\* (forgetting its vote and leader, and returning to follower), then grants
\* its vote if the request's term is current, it has not voted for another
\* member in that term and the candidate's log is up to date.  A response
\* with a higher term returns the candidate to follower; the vote that
\* completes a quorum makes it the leader: it creates a memberAppender per
\* peer and appends the Initialize entry of its term.
RequestVote(m, p) ==
    /\ role[m] = "candidate"
    /\ p \in Peers(m)
    /\ p \notin votes[m]
    /\ LET t == term[m]
           behind == term[p] < t
           pTerm == Max(term[p], t)
           pVoted == IF behind THEN None ELSE votedFor[p]
           granted == VoteGranted(t, m, pVoted, p)
           newVotes == IF granted THEN votes[m] \cup {p} ELSE votes[m]
           lost == pTerm > t
           won == ~lost /\ Cardinality(newVotes) >= Quorum(Cardinality(Server))
       IN /\ won => Len(log[m]) < MaxLogLen
          /\ term' = [term EXCEPT ![p] = pTerm, ![m] = pTerm]
          /\ votedFor' = [votedFor EXCEPT
                            ![p] = IF granted THEN m ELSE pVoted,
                            ![m] = IF lost THEN None ELSE votedFor[m]]
          /\ leader' = [leader EXCEPT
                            ![p] = IF behind THEN None ELSE leader[p],
                            ![m] = IF won THEN m ELSE leader[m]]
          /\ role' = [role EXCEPT
                            ![p] = IF behind THEN "follower" ELSE role[p],
                            ![m] = IF lost THEN "follower"
                                   ELSE IF won THEN "leader" ELSE "candidate"]
          /\ votes' = [votes EXCEPT
                            ![p] = IF behind THEN {} ELSE votes[p],
                            ![m] = IF lost \/ won THEN {} ELSE newVotes]
          /\ appender' = [appender EXCEPT
                            ![p] = IF behind THEN <<>> ELSE appender[p],
                            ![m] = IF won
                                   THEN [x \in Peers(m) |->
                                           NewMemberAppender(Len(log[m]))]
                                   ELSE <<>>]
          /\ peerIndexes' = [peerIndexes EXCEPT
                            ![p] = IF behind THEN <<>> ELSE peerIndexes[p]]
          /\ log' = [log EXCEPT
                            ![m] = IF won THEN Append(log[m],
                                               Entry(t, m, Len(log[m]) + 1))
                                   ELSE log[m]]
          /\ elected' = IF won THEN elected \cup {<<t, m>>} ELSE elected
          /\ stepDown' = [stepDown EXCEPT
                            ![p] = IF behind THEN FALSE ELSE stepDown[p]]
    /\ UNCHANGED <<commitIndex, committed, notCluster>>

(***************************************************************************)
(* The cluster: replication.                                               *)
(***************************************************************************)
\* The leader appends a client's command to its log.
LeaderAppend(m) ==
    /\ role[m] = "leader"
    /\ leader[m] = m
    /\ Len(log[m]) < MaxLogLen
    /\ log' = [log EXCEPT
                ![m] = Append(log[m], Entry(term[m], m, Len(log[m]) + 1))]
    /\ UNCHANGED <<term, votedFor, leader, role, commitIndex, votes, appender,
                   peerIndexes, stepDown, elected, committed,
                   notCluster>>

\* A plausible slip: the batch starts at the first entry of the log instead
\* of nextIndex.
AppendRequest_FromStart(m, p, empty) ==
    LET a == appender[m][p]
    IN [term         |-> term[m],
        leader       |-> leader[m],
        prevLogIndex |-> a.nextIndex - 1,
        prevLogTerm  |-> a.prevTerm,
        entries      |-> IF empty THEN <<>> ELSE log[m],
        commitIndex  |-> commitIndex[m]]

\* emptyAppendRequest (a heartbeat) or entriesAppendRequest for peer p.
AppendRequest(m, p, empty) ==
    LET a == appender[m][p]
    IN [term         |-> term[m],
        leader       |-> leader[m],
        prevLogIndex |-> a.nextIndex - 1,
        prevLogTerm  |-> a.prevTerm,
        entries      |-> IF empty THEN <<>>
                         ELSE SubSeq(log[m], a.nextIndex, Len(log[m])),
        commitIndex  |-> commitIndex[m]]

\* The peer refuses a request of an older term; a leader refuses one of its
\* own term.
Refused(p, request) ==
    \/ request.term < term[p]
    \/ role[p] = "leader" /\ request.term = term[p]

\* The entry before the request's entries is in the log with the same term.
PrevMatches(l, request) ==
    \/ request.prevLogIndex = 0
    \/ /\ request.prevLogIndex <= Len(l)
       /\ l[request.prevLogIndex].term = request.prevLogTerm

\* The log after the request's entries are appended: the suffix from the
\* first entry whose term conflicts is truncated.
AppendToLog(l, prev, entries) ==
    LET conflicts == {k \in 1..Len(entries) :
                         /\ prev + k <= Len(l)
                         /\ l[prev + k].term # entries[k].term}
        first == IF conflicts = {}
                 THEN Max(Len(l) - prev, 0) + 1
                 ELSE CHOOSE k \in conflicts : \A j \in conflicts : k <= j
        keep == IF conflicts = {} THEN Len(l) ELSE prev + first - 1
    IN SubSeq(l, 1, keep) \o SubSeq(entries, first, Len(entries))

AppendResponse(p, request) ==
    LET succeeded == ~Refused(p, request) /\ PrevMatches(log[p], request)
    IN [succeeded    |-> succeeded,
        term         |-> Max(term[p], request.term),
        lastLogIndex |-> IF succeeded
                         THEN request.prevLogIndex + Len(request.entries)
                         ELSE IF Refused(p, request)
                                 \/ request.prevLogIndex > Len(log[p])
                              THEN Len(log[p])
                              ELSE request.prevLogIndex - 1]

\* memberAppender.handleAppendResponse: the fields after the response.
AppenderAfter(a, request, response) ==
    IF response.succeeded
    THEN [nextIndex  |-> response.lastLogIndex + 1,
          matchIndex |-> response.lastLogIndex,
          prevTerm   |-> IF Len(request.entries) > 0
                         THEN request.entries[response.lastLogIndex
                                              - request.prevLogIndex].term
                         ELSE a.prevTerm]
    ELSE IF response.lastLogIndex < a.matchIndex
         THEN [a EXCEPT !.matchIndex = response.lastLogIndex,
                        !.nextIndex = response.lastLogIndex + 1]
         ELSE a

\* One AppendRequest from leader m to peer p and its response.
\*   The peer (unless it refuses) adopts the request's term and leader,
\* returns to follower, and if the previous entry matches appends the
\* entries and advances its commit index.
\*   The leader, on success, records the match index and runs
\* raftAppender.commitIndex; on a rejection with a higher term it sets its
\* term, clears its leader and starts "go becomeFollower()", whose effect is
\* the later step BecomeFollower; on another rejection it resets the match
\* index if the peer's last index is below it.
AppendEntries(m, p, empty) ==
    /\ role[m] = "leader"
    /\ p \in Peers(m)
    /\ \E request \in {AppendRequest(m, p, empty)} :
       \E response \in {AppendResponse(p, request)} :
       \E refused \in {Refused(p, request)} :
       \E higher \in {~response.succeeded /\ response.term > term[m]} :
       \E a \in {AppenderAfter(appender[m][p], request, response)} :
       \E reported \in {response.succeeded
                         /\ a.matchIndex > MapGet(peerIndexes[m], p)} :
       \E cis \in {IF reported
                    THEN MapPut(peerIndexes[m], p, a.matchIndex)
                    ELSE peerIndexes[m]} :
       \E visited \in {IF reported
                        THEN CommitLoop(commitIndex[m],
                                        QuorumIndex(cis, Peers(m)))
                        ELSE <<>>} :
          /\ term' = [term EXCEPT
                        ![p] = IF refused THEN term[p] ELSE request.term,
                        ![m] = IF higher THEN response.term ELSE term[m]]
          /\ votedFor' = [votedFor EXCEPT
                        ![p] = IF request.term > term[p] THEN None
                               ELSE votedFor[p],
                        ![m] = IF higher THEN None ELSE votedFor[m]]
          /\ leader' = [leader EXCEPT
                        ![p] = IF refused THEN leader[p] ELSE request.leader,
                        ![m] = IF higher THEN None ELSE leader[m]]
          /\ role' = [role EXCEPT
                        ![p] = IF refused THEN role[p] ELSE "follower"]
          /\ votes' = [votes EXCEPT
                        ![p] = IF refused THEN votes[p] ELSE {}]
          /\ log' = [log EXCEPT
                        ![p] = IF response.succeeded
                               THEN AppendToLog(log[p], request.prevLogIndex,
                                                request.entries)
                               ELSE log[p]]
          /\ commitIndex' = [commitIndex EXCEPT
                        ![p] = IF response.succeeded
                               THEN Max(commitIndex[p],
                                        Min(request.commitIndex,
                                            response.lastLogIndex))
                               ELSE commitIndex[p],
                        ![m] = IF visited = <<>> THEN commitIndex[m]
                               ELSE visited[Len(visited)]]
          /\ appender' = [appender EXCEPT
                        ![p] = IF refused THEN appender[p] ELSE <<>>,
                        ![m] = IF higher THEN appender[m]
                               ELSE [appender[m] EXCEPT ![p] = a]]
          /\ peerIndexes' = [peerIndexes EXCEPT
                        ![p] = IF refused THEN peerIndexes[p] ELSE <<>>,
                        ![m] = cis]
          /\ stepDown' = [stepDown EXCEPT
                        ![p] = IF refused THEN stepDown[p] ELSE FALSE,
                        ![m] = stepDown[m] \/ higher]
          /\ committed' = committed \cup
                            {[index |-> i,
                              entry |-> log[m][i],
                              term  |-> term[m]] :
                                i \in SeqRange(visited) \cap DOMAIN log[m]}
    /\ UNCHANGED <<elected, notCluster>>

\* The "go becomeFollower()" of a leader that saw a higher term runs.  It is
\* pending (stepDown) until then, or until the member leaves the Leader role
\* another way: on a follower it changes nothing.
BecomeFollower(m) ==
    /\ stepDown[m]
    /\ stepDown' = [stepDown EXCEPT ![m] = FALSE]
    /\ role' = [role EXCEPT ![m] = "follower"]
    /\ votes' = [votes EXCEPT ![m] = {}]
    /\ appender' = [appender EXCEPT ![m] = <<>>]
    /\ peerIndexes' = [peerIndexes EXCEPT ![m] = <<>>]
    /\ UNCHANGED <<term, votedFor, leader, log, commitIndex, elected,
                   committed, notCluster>>

\* raftAppender.failTime: a leader that has not heard from a quorum for two
\* election timeouts clears its leader and becomes a follower.
FailTime(m) ==
    /\ role[m] = "leader"
    /\ leader' = [leader EXCEPT ![m] = None]
    /\ role' = [role EXCEPT ![m] = "follower"]
    /\ appender' = [appender EXCEPT ![m] = <<>>]
    /\ peerIndexes' = [peerIndexes EXCEPT ![m] = <<>>]
    /\ stepDown' = [stepDown EXCEPT ![m] = FALSE]
    /\ UNCHANGED <<term, votedFor, log, commitIndex, votes,
                   elected, committed, notCluster>>

Next ==
    \/ \E m \in Server, R \in SUBSET Server : HeartbeatTimeout(m, R)
    \/ \E m \in Server : CandidateTimeout(m)
    \/ \E m \in Server, p \in Server : RequestVote(m, p)
    \/ \E m \in Server : LeaderAppend(m)
    \/ \E m \in Server, p \in Server, empty \in BOOLEAN :
          AppendEntries(m, p, empty)
    \/ \E m \in Server : BecomeFollower(m)
    \/ \E m \in Server : FailTime(m)

Init ==
    /\ InitCluster
    /\ InitAppender(0) /\ logLastIndex = 0
    /\ InitQuery
    /\ InitTerm
    /\ InitRoleIdle
    /\ InitQuorumIdle
    /\ InitMemberIdle
    /\ InitWorker({FALSE})
    /\ InitSnapshot

Spec == Init /\ [][Next]_vars

InitSpecTerm == Init

SpecTerm == InitSpecTerm /\ [][NextTerm]_vars

Stored(m, j) == {x \in Server : Len(log[x]) >= j /\ log[x][j] = log[m][j]}

\* C3 (commit rule): a leader in term T advances its commit index to i only
\* if some entry of term T at an index <= i is stored on a majority.
C3_CurrentTermCommit ==
    [][\A m \in Server :
          (role[m] = "leader" /\ role'[m] = "leader"
              /\ commitIndex'[m] > commitIndex[m])
          => \E j \in 1..commitIndex'[m] :
                /\ log'[m][j].term = term'[m]
                /\ Cardinality(Stored(m, j)')
                      >= Quorum(Cardinality(Server))]_vars

\* C5 (leader completeness): the log of a member that became leader in term
\* T contains every entry committed in a term < T.
C5_LeaderCompleteness ==
    \A m \in Server :
        (role[m] = "leader" /\ <<term[m], m>> \in elected)
        => \A c \in committed :
              c.term < term[m]
              => Len(log[m]) >= c.index /\ log[m][c.index] = c.entry

C7_TermMonotonic ==
    [][/\ srvTerm' >= srvTerm
       /\ termSets' # termSets => srvTerm' > srvTerm]_vars

\* The term was set twice, and a handler whose first test passed waits for
\* the write lock while the term has caught up with its response.
C7_Witness ==
    /\ Len(termSets) >= 3
    /\ \E h \in Handlers :
          /\ handler[h].pc \in {"pollSet", "appendSet"}
          /\ handler[h].resp <= srvTerm

(***************************************************************************)
(* Properties of the appender.                                             *)
(***************************************************************************)
\* Members of the cluster: the peers and the leader.
ClusterSize == Cardinality(members) + 1

\* The members whose match index is at least i; the leader holds its log.
MatchCount(cis, i) == Cardinality({m \in members : MapGet(cis, m) >= i}) + 1

\* C2 (majority commit): whenever commitIndex() advances the leader's commit
\* index to i in a cluster of N >= 2 members, at least floor(N/2)+1 members
\* (the leader included) have a match index >= i.
C2_MajorityCommit ==
    [][(members # {} /\ srvCommitIndex' > srvCommitIndex)
          => MatchCount(commitIndexes', srvCommitIndex') >= Quorum(ClusterSize)]_vars

\* C2 witness: the commit index advanced in a cluster of four while a peer had
\* not reported any match index.
C2_Witness ==
    /\ Cardinality(members) = 3
    /\ setCalls # <<>>
    /\ srvCommitIndex >= 2
    /\ DOMAIN commitIndexes # members

\* C4 (commit monotonicity): commitIndex never decreases, on the multi-peer
\* path and on the single-node path of append(entry).
C4_CommitMonotonic == [][srvCommitIndex' >= srvCommitIndex]_vars

\* C8 (acknowledged means committed): with at least one peer, append(entry)
\* has returned success only if commitIndex >= entry.Index and a majority
\* has a match index >= entry.Index.
C8_AckedIsCommitted ==
    \A i \in 1..MaxIndex :
        (members # {} /\ appendCalls[i] = "ok")
            => /\ srvCommitIndex >= i
               /\ MatchCount(commitIndexes, i) >= Quorum(ClusterSize)

\* C8 witness: an append call on a leader with peers returned success.
C8_Witness ==
    /\ members # {}
    /\ \E i \in 1..MaxIndex : appendCalls[i] = "ok"

IsStrictlyIncreasing(s) == \A k \in 1..(Len(s) - 1) : s[k] < s[k + 1]

\* C9 (commit order): when the commit index advances from old to a new median,
\* setCommitIndex is called exactly for old+1, old+2, ..., new in that order,
\* and the commit-channel notifications are delivered in increasing order.
C9_CommitOrder ==
    [][members # {} =>
         /\ setCalls' = setCalls \o [k \in 1..(srvCommitIndex' - srvCommitIndex)
                                        |-> srvCommitIndex + k]
         /\ IsStrictlyIncreasing(notified')]_vars

\* C9 witness: several indexes were committed and several callers notified.
C9_Witness ==
    /\ members # {}
    /\ Len(setCalls) >= 2
    /\ Len(notified) >= 2

WriterWaiting == watch = "lock" \/ \E g \in Goroutines : pc[g] = "reset"

\* WriteLock() returns: no writer and no reader holds the lock.
CanWrite == lock = Unlocked

\* ReadLock() returns: no writer holds the lock and none waits for it.
CanRead == lock.writer = None /\ ~WriterWaiting

\* A mutation of SingleNode: the single-node case is never taken.
SingleNode_Never(n) == FALSE

\* len(r.raft.Members()) == 1 of FollowerRole.Start.
SingleNode(n) == n = 1

\* quorum of sendPollRequests: floor(n / 2) + 1.
PollQuorum(n) == (n \div 2) + 1

\* A mutation of CandidateGate: the leader is not looked at.
CandidateGate_AnyLeader(leaderKnown, count, quorum) == count = quorum

\* r.raft.Leader() == "" && acceptCount == quorum of the counting goroutine.
CandidateGate(leaderKnown, count, quorum) == ~leaderKnown /\ count = quorum

\* The vote a poll response puts on the votes channel.
PollVote(reply) == reply = "accept"

\* The role's state before FollowerRole.Start, in a cluster of 1..MaxMembers.
InitFollower ==
    /\ nMembers \in 1..MaxMembers
    /\ fRole = "follower"
    /\ setRole = {}
    /\ active = FALSE
    /\ raftLeader = FALSE
    /\ lock = Unlocked
    /\ heartbeatTimer = "nil"
    /\ heartbeatStop = 0
    /\ watch = "none"
    /\ pc = [g \in Goroutines |-> "idle"]
    /\ pollVotes = <<>>
    /\ polls = [p \in 1..(nMembers - 1) |-> "idle"]
    /\ acceptCount = 0
    /\ rejectCount = 0
    /\ accepted = 0
    /\ transitions = 0

\* FollowerRole.Start: a single node goes to candidate at once, without a
\* timer; otherwise ActiveRole.Start and resetHeartbeatTimeout.
Start ==
    /\ pc["start"] = "idle"
    /\ fRole = "follower"
    /\ IF SingleNode(nMembers)
       THEN /\ setRole' = setRole \cup {"candidate"}
            /\ pc' = [pc EXCEPT !["start"] = "done"]
            /\ UNCHANGED active
       ELSE /\ active' = TRUE
            /\ pc' = [pc EXCEPT !["start"] = "reset"]
            /\ UNCHANGED setRole
    /\ UNCHANGED <<nMembers, fRole, raftLeader, lock, heartbeatTimer,
                   heartbeatStop, watch, pollVotes, polls, acceptCount,
                   rejectCount, accepted, transitions, notFollower>>

\* resetHeartbeatTimeout once WriteLock() returned: a timer that Stop()
\* cannot stop any more (it fired or was stopped) gets a value on
\* heartbeatStop and the function returns; otherwise a new timer, a new
\* stop channel and a new goroutine are made.  The send blocks, with the
\* write lock held, when the channel's buffer of one is full.
ResetRun(g) ==
    /\ pc[g] = "reset"
    /\ lock.writer = None
    /\ lock.readers = {}
    /\ IF heartbeatTimer \in {"fired", "stopped"}
       THEN /\ IF heartbeatStop < 1
               THEN /\ heartbeatStop' = heartbeatStop + 1
                    /\ pc' = [pc EXCEPT ![g] = "done"]
                    /\ UNCHANGED lock
               ELSE /\ pc' = [pc EXCEPT ![g] = "blocked"]
                    /\ lock' = [lock EXCEPT !.writer = g]
                    /\ UNCHANGED heartbeatStop
            /\ UNCHANGED <<heartbeatTimer, watch>>
       ELSE /\ heartbeatTimer' = "armed"
            /\ heartbeatStop' = 0
            /\ watch' = "waiting"
            /\ pc' = [pc EXCEPT ![g] = "done"]
            /\ UNCHANGED lock
    /\ UNCHANGED <<nMembers, fRole, setRole, active, raftLeader, pollVotes,
                   polls, acceptCount, rejectCount, accepted, transitions,
                   notFollower>>

\* The blocked send of resetHeartbeatTimeout completes when the buffer has
\* room again; the deferred WriteUnlock() runs.
ResetUnblock(g) ==
    /\ pc[g] = "blocked"
    /\ heartbeatStop < 1
    /\ heartbeatStop' = heartbeatStop + 1
    /\ lock' = Unlocked
    /\ pc' = [pc EXCEPT ![g] = "done"]
    /\ UNCHANGED <<nMembers, fRole, setRole, active, raftLeader,
                   heartbeatTimer, watch, pollVotes, polls, acceptCount,
                   rejectCount, accepted, transitions, notFollower>>

\* The heartbeat timer expires.
Fire ==
    /\ heartbeatTimer = "armed"
    /\ heartbeatTimer' = "fired"
    /\ UNCHANGED <<nMembers, fRole, setRole, active, raftLeader, lock,
                   heartbeatStop, watch, pc, pollVotes, polls, acceptCount,
                   rejectCount, accepted, transitions, notFollower>>

\* The timer's goroutine receives from the timer's channel and calls
\* WriteLock().
WatchTimer ==
    /\ watch = "waiting"
    /\ heartbeatTimer = "fired"
    /\ watch' = "lock"
    /\ UNCHANGED <<nMembers, fRole, setRole, active, raftLeader, lock,
                   heartbeatTimer, heartbeatStop, pc, pollVotes, polls,
                   acceptCount, rejectCount, accepted, transitions,
                   notFollower>>

\* The timer's goroutine receives from heartbeatStop and returns.
WatchStop ==
    /\ watch = "waiting"
    /\ heartbeatStop > 0
    /\ heartbeatStop' = heartbeatStop - 1
    /\ watch' = "gone"
    /\ UNCHANGED <<nMembers, fRole, setRole, active, raftLeader, lock,
                   heartbeatTimer, pc, pollVotes, polls, acceptCount,
                   rejectCount, accepted, transitions, notFollower>>

\* A mutation of StillActive: the timer's goroutine does not look at the
\* flag.
StillActive_Unchecked(flag) == TRUE

\* "if r.active" of the timer's goroutine, under the write lock.
StillActive(flag) == flag

\* The timer's goroutine under the write lock: an active follower clears
\* the leader and starts sendPollRequests, which makes the timeout
\* goroutine, the vote-counting goroutine, its own vote and one goroutine
\* per peer.
WatchPoll ==
    /\ watch = "lock"
    /\ CanWrite
    /\ watch' = "gone"
    /\ IF StillActive(active)
       THEN /\ raftLeader' = FALSE
            /\ pc' = [pc EXCEPT !["timeout"] = "wait", !["count"] = "recv"]
            /\ pollVotes' = <<TRUE>>
            /\ polls' = [p \in 1..(nMembers - 1) |-> "start"]
            /\ acceptCount' = 0
            /\ rejectCount' = 0
            /\ accepted' = 1
            /\ transitions' = 0
       ELSE UNCHANGED <<raftLeader, pc, pollVotes, polls, acceptCount,
                        rejectCount, accepted, transitions>>
    /\ UNCHANGED <<nMembers, fRole, setRole, active, lock, heartbeatTimer,
                   heartbeatStop, notFollower>>

\* The timeout goroutine of sendPollRequests: timeoutExpired is never
\* written, so after electionTimeout a follower that reads r.active as true
\* resets its timer.  The flag is read without the lock: once the role has
\* been stopped the read races with the write and gives either value.
PollTimeout(seen) ==
    /\ pc["timeout"] = "wait"
    /\ active => seen
    /\ pc' = [pc EXCEPT !["timeout"] = IF seen THEN "reset" ELSE "done"]
    /\ UNCHANGED <<nMembers, fRole, setRole, active, raftLeader, lock,
                   heartbeatTimer, heartbeatStop, watch, pollVotes, polls,
                   acceptCount, rejectCount, accepted, transitions,
                   notFollower>>

\* A peer's goroutine reads the term under the read lock and sends its
\* PollRequest.
Poll(p) ==
    /\ p \in DOMAIN polls
    /\ polls[p] = "start"
    /\ CanRead
    /\ polls' = [polls EXCEPT ![p] = "sent"]
    /\ UNCHANGED <<nMembers, fRole, setRole, active, raftLeader, lock,
                   heartbeatTimer, heartbeatStop, watch, pc, pollVotes,
                   acceptCount, rejectCount, accepted, transitions,
                   notFollower>>

\* The answers to a poll: an error, a rejection, an acceptance at the
\* request's term, or an answer that carries a higher term.
PollReplies == {"error", "reject", "accept", "higher"}

\* A peer's goroutine gets its answer: a higher term is set under the
\* write lock, and the vote goes on the votes channel, which is true only
\* for an acceptance at the term the request was sent with.
PollReply(p, reply) ==
    /\ p \in DOMAIN polls
    /\ polls[p] = "sent"
    /\ reply = "higher" => CanWrite
    /\ polls' = [polls EXCEPT ![p] = "done"]
    /\ pollVotes' = Append(pollVotes, PollVote(reply))
    /\ accepted' = IF reply = "accept" THEN accepted + 1 ELSE accepted
    /\ UNCHANGED <<nMembers, fRole, setRole, active, raftLeader, lock,
                   heartbeatTimer, heartbeatStop, watch, pc, acceptCount,
                   rejectCount, transitions, notFollower>>

\* One turn of the vote-counting goroutine's loop, under the read lock.  On
\* a quorum of accepted polls with no leader it unlocks and runs
\* "go SetRole(candidate)"; on a quorum of rejected polls it calls
\* resetHeartbeatTimeout without unlocking.
CountVote ==
    /\ pc["count"] = "recv"
    /\ pollVotes # <<>>
    /\ CanRead
    /\ pollVotes' = Tail(pollVotes)
    /\ IF ~active
       THEN /\ pc' = [pc EXCEPT !["count"] = "done"]
            /\ UNCHANGED <<acceptCount, rejectCount, setRole, transitions, lock>>
       ELSE IF Head(pollVotes)
       THEN /\ acceptCount' = acceptCount + 1
            /\ IF CandidateGate(raftLeader, acceptCount + 1, PollQuorum(nMembers))
               THEN /\ setRole' = setRole \cup {"candidate"}
                    /\ transitions' = transitions + 1
                    /\ pc' = [pc EXCEPT !["count"] = "done"]
               ELSE UNCHANGED <<setRole, transitions, pc>>
            /\ UNCHANGED <<rejectCount, lock>>
       ELSE /\ rejectCount' = rejectCount + 1
            /\ IF rejectCount + 1 = PollQuorum(nMembers)
               THEN /\ pc' = [pc EXCEPT !["count"] = "reset"]
                    /\ lock' = [lock EXCEPT !.readers = @ \cup {"count"}]
               ELSE UNCHANGED <<pc, lock>>
            /\ UNCHANGED <<acceptCount, setRole, transitions>>
    /\ UNCHANGED <<nMembers, fRole, active, raftLeader, heartbeatTimer,
                   heartbeatStop, watch, polls, accepted, notFollower>>

\* FollowerRole.Append: the passive role's handler, which learns the
\* leader under the write lock, then resetHeartbeatTimeout.
AppendHandle ==
    /\ pc["append"] \in {"idle", "done"}
    /\ fRole = "follower"
    /\ active
    /\ CanWrite
    /\ raftLeader' = TRUE
    /\ pc' = [pc EXCEPT !["append"] = "reset"]
    /\ UNCHANGED <<nMembers, fRole, setRole, active, lock, heartbeatTimer,
                   heartbeatStop, watch, pollVotes, polls, acceptCount,
                   rejectCount, accepted, transitions, notFollower>>

\* A "go SetRole(role)" runs under the write lock: FollowerRole.Stop stops
\* a pending timer and tells its goroutine, the role is replaced.
SetRoleRun(target) ==
    /\ target \in setRole
    /\ CanWrite
    /\ setRole' = setRole \ {target}
    /\ fRole' = target
    /\ active' = FALSE
    /\ IF heartbeatTimer = "armed"
       THEN heartbeatTimer' = "stopped" /\ heartbeatStop' = heartbeatStop + 1
       ELSE UNCHANGED <<heartbeatTimer, heartbeatStop>>
    /\ UNCHANGED <<nMembers, raftLeader, lock, watch, pc, pollVotes, polls,
                   acceptCount, rejectCount, accepted, transitions,
                   notFollower>>

\* The server stops the follower role: FollowerRole.Stop stops a pending
\* timer and tells its goroutine, ActiveRole.Stop clears the active flag.
ServerStop ==
    /\ active
    /\ fRole = "follower"
    /\ CanWrite
    /\ fRole' = "stopped"
    /\ active' = FALSE
    /\ IF heartbeatTimer = "armed"
       THEN heartbeatTimer' = "stopped" /\ heartbeatStop' = heartbeatStop + 1
       ELSE UNCHANGED <<heartbeatTimer, heartbeatStop>>
    /\ UNCHANGED <<nMembers, setRole, raftLeader, lock, watch, pc, pollVotes,
                   polls, acceptCount, rejectCount, accepted, transitions,
                   notFollower>>

\* The candidate of a single-node cluster has the majority with its own
\* vote and becomes leader.
CandidateElect ==
    /\ fRole = "candidate"
    /\ SingleNode(nMembers)
    /\ fRole' = "leader"
    /\ UNCHANGED <<nMembers, setRole, active, raftLeader, lock,
                   heartbeatTimer, heartbeatStop, watch, pc, pollVotes, polls,
                   acceptCount, rejectCount, accepted, transitions,
                   notFollower>>

\* The leader of the single-node cluster takes a command.
SingleCommand == fRole = "leader" /\ members = {} /\ Command

\* The leader of the single-node cluster runs append(entry).
SingleAppend(i) == fRole = "leader" /\ members = {} /\ AppendSingle(i)

NextFollower ==
    \/ Start
    \/ \E g \in Goroutines : ResetRun(g)
    \/ \E g \in Goroutines : ResetUnblock(g)
    \/ Fire
    \/ WatchTimer
    \/ WatchStop
    \/ WatchPoll
    \/ \E seen \in BOOLEAN : PollTimeout(seen)
    \/ \E p \in 1..(MaxMembers - 1) : Poll(p)
    \/ \E p \in 1..(MaxMembers - 1), reply \in PollReplies : PollReply(p, reply)
    \/ CountVote
    \/ AppendHandle
    \/ \E target \in {"candidate"} : SetRoleRun(target)
    \/ ServerStop
    \/ CandidateElect
    \/ SingleCommand
    \/ \E i \in 1..MaxIndex : SingleAppend(i)

InitSpecFollower ==
    /\ InitFollower /\ InitAppender(0) /\ InitQuery /\ InitCluster /\ InitTerm
    /\ InitQuorumIdle
    /\ InitMemberIdle
    /\ InitWorker({FALSE})
    /\ InitSnapshot

SpecFollower == InitSpecFollower /\ [][NextFollower]_vars

\* The scheduler runs every goroutine that can take a step, and the
\* transports answer: the role changes, the election of the single node,
\* and append(entry) of its leader are not postponed for ever.
FairSpecFollower ==
    /\ SpecFollower
    /\ WF_vars(Start)
    /\ WF_vars(\E target \in {"candidate"} : SetRoleRun(target))
    /\ WF_vars(CandidateElect)
    /\ WF_vars(\E i \in 1..MaxIndex : SingleAppend(i))

(***************************************************************************)
(* Properties of the Follower role.                                        *)
(***************************************************************************)
\* C11 (single-node bootstrap): in a cluster of one member FollowerRole.Start
\* arms no heartbeat timer, the member eventually becomes leader, and every
\* append(entry) of that leader returns success with commitIndex set to the
\* entry's index, without waiting on a peer.
C11_SingleNode ==
    /\ [](nMembers = 1 => heartbeatTimer = "nil")
    /\ [](nMembers = 1 => <>(fRole = "leader"))
    /\ \A i \in 1..MaxIndex :
          []((nMembers = 1 /\ appendCalls[i] = "called")
                 => <>(appendCalls[i] = "ok"))
    /\ [][\A i \in 1..MaxIndex :
             (nMembers = 1 /\ appendCalls[i] = "called"
                  /\ appendCalls'[i] # "called")
                 => (appendCalls'[i] = "ok" /\ srvCommitIndex' = i
                     /\ members = {})]_vars

C11_Witness ==
    /\ nMembers = 1
    /\ fRole = "leader"
    /\ heartbeatTimer = "nil"
    /\ \E i \in 1..MaxIndex : appendCalls[i] = "ok" /\ srvCommitIndex = i

\* C18 (pre-vote gate): a poll round schedules the transition to Candidate
\* only while the follower is active, knows no leader, and the polls
\* accepted at the term they were sent with, its own included, are a
\* majority of the members; it does so at most once per round.
C18_PreVoteGate ==
    [][transitions' > transitions =>
          /\ active
          /\ ~raftLeader
          /\ accepted >= (nMembers \div 2) + 1
          /\ transitions' = 1]_vars

C18_Witness ==
    /\ transitions = 1
    /\ nMembers = 3
    /\ rejectCount = 1
    /\ "candidate" \in setRole

\* C19 (rejected poll re-arms the follower): once the vote-counting
\* goroutine has counted a majority of rejections it holds no server lock
\* and the heartbeat timer is armed again when it is done.
C19_RejectRearms ==
    /\ pc["count"] \in {"reset", "blocked", "done"} => "count" \notin lock.readers
    /\ (pc["count"] = "done" /\ rejectCount = (nMembers \div 2) + 1 /\ active)
           => heartbeatTimer = "armed"

\* C20 (heartbeat timer always re-armed): every resetHeartbeatTimeout of an
\* active follower returns, releasing the write lock, with a fresh timer
\* pending, also when the previous timer had already fired.
C20_AlwaysRearmed ==
    [][\A g \in Goroutines :
          (pc[g] = "reset" /\ pc'[g] # "reset" /\ active)
              => (pc'[g] = "done" /\ heartbeatTimer' = "armed")]_vars

AppenderStart ==
    /\ loop = "new"
    /\ mu = None
    /\ mu' = "start"
    /\ loop' = "select"
    /\ UNCHANGED <<now, commitTimes, lastQuorumTime, heartbeatFutures, hb,
                   commitCh, failCh, qLeader, notQuorum>>

\* The clock advances.
Tick ==
    /\ now < MaxTime
    /\ now' = now + 1
    /\ UNCHANGED <<mu, loop, commitTimes, lastQuorumTime, heartbeatFutures,
                   hb, commitCh, failCh, qLeader, notQuorum>>

\* A member appender has no event waiting on commitCh or failCh.
MemberFree(m) ==
    /\ \A ev \in commitCh : ev.member # m
    /\ \A ev \in failCh : ev.member # m

\* memberAppender.commit: a response to a request sent at time t; the
\* member appender sends the event on commitCh and waits there.
MemberAnswer(m, t) ==
    /\ m \in members
    /\ t = now
    /\ loop # "new"
    /\ qLeader
    /\ MemberFree(m)
    /\ commitCh' = commitCh \cup {[member |-> m, time |-> t]}
    /\ UNCHANGED <<now, mu, loop, commitTimes, lastQuorumTime,
                   heartbeatFutures, hb, failCh, qLeader, notQuorum>>

\* memberAppender.fail: a request failed now; the member appender sends the
\* time on failCh and waits there.
MemberFail(m) ==
    /\ m \in members
    /\ loop # "new"
    /\ qLeader
    /\ MemberFree(m)
    /\ failCh' = failCh \cup {[member |-> m, time |-> now]}
    /\ UNCHANGED <<now, mu, loop, commitTimes, lastQuorumTime,
                   heartbeatFutures, hb, commitCh, qLeader, notQuorum>>

\* processCommits receives from commitCh and runs commitTime: a newer time
\* is stored, then mu is locked.  With mu free the futures older than the
\* quorum time are resolved by a send on their channel, which blocks on a
\* nil channel, and lastQuorumTime becomes the event's time; with mu held
\* (by start, in this very goroutine) the loop waits for it.
LoopCommit(ev) ==
    /\ loop = "select"
    /\ ev \in commitCh
    /\ commitCh' = commitCh \ {ev}
    /\ IF ev.time > MapGet(commitTimes, ev.member)
       THEN /\ commitTimes' = MapPut(commitTimes, ev.member, ev.time)
            /\ IF mu # None
               THEN /\ loop' = "lock"
                    /\ UNCHANGED lastQuorumTime
               ELSE IF /\ heartbeatFutures # <<>>
                       /\ Head(heartbeatFutures).time
                            < QuorumTime(commitTimes', members)
                    THEN /\ loop' = IF Head(heartbeatFutures).ch = "nil"
                                    THEN "send" ELSE "select"
                         /\ UNCHANGED lastQuorumTime
                    ELSE /\ lastQuorumTime' = ev.time
                         /\ UNCHANGED loop
       ELSE UNCHANGED <<commitTimes, loop, lastQuorumTime>>
    /\ UNCHANGED <<now, mu, heartbeatFutures, hb, failCh, qLeader, notQuorum>>

\* processCommits receives from failCh and runs failTime: the leader is
\* cleared and the member becomes follower when the failure is more than
\* two election timeouts after lastQuorumTime.
LoopFail(ev) ==
    /\ loop = "select"
    /\ ev \in failCh
    /\ failCh' = failCh \ {ev}
    /\ IF ev.time - lastQuorumTime > ElectionTimeout * 2
       THEN qLeader' = FALSE /\ loop' = "stopped"
       ELSE UNCHANGED <<qLeader, loop>>
    /\ UNCHANGED <<now, mu, commitTimes, lastQuorumTime, heartbeatFutures,
                   hb, commitCh, notQuorum>>

\* heartbeat() is called: with no members it returns nil; otherwise it
\* makes a channel and goes on to lock mu.
HeartbeatCall(c) ==
    /\ hb[c].pc = "idle"
    /\ qLeader
    /\ hb' = [hb EXCEPT ![c] = [pc |-> IF members = {} THEN "ok" ELSE "lock",
                                time |-> now]]
    /\ UNCHANGED <<now, mu, loop, commitTimes, lastQuorumTime,
                   heartbeatFutures, commitCh, failCh, qLeader, notQuorum>>

\* heartbeat() under mu: the zero-valued future is pushed.
HeartbeatPush(c) ==
    /\ hb[c].pc = "lock"
    /\ mu = None
    /\ heartbeatFutures' = Append(heartbeatFutures, ZeroFuture)
    /\ hb' = [hb EXCEPT ![c].pc = "send"]
    /\ UNCHANGED <<now, mu, loop, commitTimes, lastQuorumTime, commitCh,
                   failCh, qLeader, notQuorum>>

\* heartbeat() sends the future's time to every member appender, which
\* receives once start() has started it, and then receives from its own
\* channel, which no future holds.
HeartbeatSend(c) ==
    /\ hb[c].pc = "send"
    /\ loop # "new"
    /\ hb' = [hb EXCEPT ![c].pc = "wait"]
    /\ UNCHANGED <<now, mu, loop, commitTimes, lastQuorumTime,
                   heartbeatFutures, commitCh, failCh, qLeader, notQuorum>>

NextQuorum ==
    \/ AppenderStart
    \/ Tick
    \/ \E m \in 1..MaxPeers, t \in 1..MaxTime : MemberAnswer(m, t)
    \/ \E m \in 1..MaxPeers : MemberFail(m)
    \/ \E ev \in Events : LoopCommit(ev)
    \/ \E ev \in Events : LoopFail(ev)
    \/ \E c \in Callers : HeartbeatCall(c)
    \/ \E c \in Callers : HeartbeatPush(c)
    \/ \E c \in Callers : HeartbeatSend(c)

InitSpecQuorum ==
    /\ InitQuorumIdle
    /\ InitMemberIdle
    /\ InitWorker({FALSE})
    /\ InitSnapshot
    /\ InitAppender(MaxPeers) /\ InitQuery /\ InitCluster /\ InitTerm
    /\ InitRoleIdle

\* Every goroutine that can take a step takes it: processCommits handles
\* the events it can receive, start() runs, and heartbeat() goes on.
FairSpecQuorum ==
    /\ InitSpecQuorum
    /\ [][NextQuorum]_vars
    /\ WF_vars(AppenderStart)
    /\ WF_vars(\E ev \in Events : LoopCommit(ev))
    /\ WF_vars(\E ev \in Events : LoopFail(ev))
    /\ WF_vars(\E c \in Callers : HeartbeatPush(c))
    /\ WF_vars(\E c \in Callers : HeartbeatSend(c))

(***************************************************************************)
(* Properties of the appender's quorum times.                              *)
(***************************************************************************)
\* C12 (heartbeat quorum completes): a heartbeat() call on a leader with a
\* peer, once the quorum time of the answers is later than the call,
\* eventually returns ok.
C12_HeartbeatCompletes ==
    \A c \in Callers :
        []((/\ hb[c].pc \in {"lock", "send", "wait"}
            /\ hb[c].time < QuorumTime(commitTimes, members))
               => <>(hb[c].pc = "ok"))

\* C13 (partition step-down): a failure event that is more than two
\* election timeouts after the quorum time of the peers' answers (or after
\* the appender was made, as long as no quorum answered) leads to the
\* leader being cleared.
C13_PartitionStepDown ==
    \A m \in 1..MaxPeers, t \in 1..MaxTime :
        []((/\ [member |-> m, time |-> t] \in failCh
            /\ t - Max(Created, QuorumTime(commitTimes, members))
                 > ElectionTimeout * 2)
               => <>(~qLeader))

(***************************************************************************)
(* One memberAppender of a leader that stays leader, and its peer.  The    *)
(* worker of processEvents handles one event at a time; every append or    *)
(* install runs in a goroutine of its own and is in flight until its       *)
(* response has been handled.  The peer's handlers are not in the sources: *)
(* they are modelled from the specification (an append is rejected, with   *)
(* the peer's last index, when the previous entry is missing, and with the *)
(* index before it when its term differs; an install replaces the          *)
(* snapshot and compacts the log).                                         *)
(***************************************************************************)
\* A leader elected over a log of entries of term 2, and a peer whose log
\* is equal, shorter, or holds an entry of term 1 the leader does not have.
InitMember ==
    /\ \E n \in 0..2 : mLog = [i \in 1..n |-> [term |-> 2]]
    /\ mSnapshot = 0
    /\ \E l \in {<<>>, <<[term |-> 2]>>, <<[term |-> 1]>>} :
          pLog = [base |-> 0, entries |-> l]
    /\ pSnapshot = 0
    /\ ma = NewAppender(Len(mLog))
    /\ snapshotIndex = 0
    /\ appending = FALSE
    /\ rpcs = <<>>
    /\ appendCh = <<>>
    /\ installs = <<>>
    /\ queue = <<>>
    /\ readerIndex = 0
    /\ mFailures = 0
    /\ mPanic = FALSE

\* emptyAppendRequest.
EmptyRequest(a) ==
    [kind         |-> "append",
     prevLogIndex |-> a.nextIndex - 1,
     prevLogTerm  |-> a.prevTerm,
     entries      |-> <<>>]

\* The loop of entriesAppendRequest from index next: the entry at the
\* front of the queue is taken when its index is next and dropped when its
\* index is lower; otherwise the reader is reset to next and read.  The
\* result is the list of entries, the queue that is left and the index of
\* the entry the reader read last.  (The entries are far smaller than
\* maxBatchSize.)
RECURSIVE Batch(_, _, _, _)
Batch(next, l, q, r) ==
    IF next > Len(l)
    THEN [entries |-> <<>>, queue |-> q, reader |-> r]
    ELSE IF q # <<>> /\ Head(q).index = next
    THEN LET rest == Batch(next + 1, l, Tail(q), r)
         IN  [rest EXCEPT !.entries = <<[term |-> Head(q).term]>> \o @]
    ELSE IF q # <<>> /\ Head(q).index < next
    THEN Batch(next, l, Tail(q), r)
    ELSE LET rest == Batch(next + 1, l, q, next)
         IN  [rest EXCEPT !.entries = <<l[next]>> \o @]

\* entriesAppendRequest: the request with the entries from nextIndex, the
\* queue and the reader's index afterwards.
EntriesRequest(a, l, q, r) ==
    LET batch == Batch(a.nextIndex, l, q, r)
    IN  [rpc    |-> [EmptyRequest(a) EXCEPT !.entries = batch.entries],
         queue  |-> batch.queue,
         reader |-> batch.reader]

\* nextAppendRequest: an empty request after a failure or when the reader
\* is at the last index of the log, the entries otherwise.
NextRequest(a, l, q, r, failures) ==
    IF failures > 0 \/ r = Len(l)
    THEN [rpc |-> EmptyRequest(a), queue |-> q, reader |-> r]
    ELSE EntriesRequest(a, l, q, r)

\* The condition of memberAppender.append for an install.
InstallDue(snapshot, sentIndex, a) ==
    snapshot # 0 /\ sentIndex < snapshot /\ snapshot >= a.nextIndex

\* memberAppender.append below minBackoffFailureCount failures, over the
\* log l and the queue q: the install of the current snapshot, or the
\* next append request.
NextRpc(l, q) ==
    IF InstallDue(mSnapshot, snapshotIndex, ma)
    THEN [rpc    |-> [kind |-> "install", index |-> mSnapshot],
          queue  |-> q,
          reader |-> readerIndex]
    ELSE NextRequest(ma, l, q, readerIndex, mFailures)

\* The last index of the peer's log.
PeerLast(l) == l.base + Len(l.entries)

\* The peer has the request's previous entry with the request's term.
PeerMatches(l, request) ==
    \/ request.prevLogIndex = 0
    \/ /\ request.prevLogIndex > l.base
       /\ request.prevLogIndex <= PeerLast(l)
       /\ l.entries[request.prevLogIndex - l.base].term = request.prevLogTerm

\* The peer's answer to an append request.
PeerResponse(l, request) ==
    LET succeeded == PeerMatches(l, request)
    IN [succeeded    |-> succeeded,
        lastLogIndex |-> IF succeeded
                         THEN request.prevLogIndex + Len(request.entries)
                         ELSE IF request.prevLogIndex > PeerLast(l)
                                 \/ request.prevLogIndex <= l.base
                              THEN PeerLast(l)
                              ELSE request.prevLogIndex - 1]

\* The peer's log after an accepted request: the entries its snapshot
\* covers are skipped, a conflicting suffix is truncated.
PeerAppend(l, request) ==
    LET skip == Max(l.base - request.prevLogIndex, 0)
        new == SubSeq(request.entries, skip + 1, Len(request.entries))
        prev == Max(request.prevLogIndex - l.base, 0)
    IN [l EXCEPT !.entries = AppendToLog(l.entries, prev, new)]

\* The peer's log after an install at index: compact(index).
PeerCompact(l, index) ==
    IF index <= l.base THEN l
    ELSE [base    |-> index,
          entries |-> SubSeq(l.entries, index - l.base + 1, Len(l.entries))]

\* case entry := <-a.entryCh: the leader, in term 3, has appended an entry;
\* it is queued when no failure is counted, and an append starts in a
\* goroutine unless one is marked as running.
MemberEntry ==
    /\ ~mPanic
    /\ Len(mLog) < MaxMemberLog
    /\ mLog' = Append(mLog, [term |-> 3])
    /\ \E q \in {IF mFailures = 0
                 THEN Append(queue, [index |-> Len(mLog) + 1, term |-> 3])
                 ELSE queue} :
          IF ~appending
          THEN \E next \in {NextRpc(mLog', q)} :
                  /\ appending' = TRUE
                  /\ rpcs' = Append(rpcs, next.rpc)
                  /\ queue' = next.queue
                  /\ readerIndex' = next.reader
          ELSE /\ queue' = q
               /\ UNCHANGED <<appending, rpcs, readerIndex>>
    /\ UNCHANGED <<mSnapshot, pLog, pSnapshot, ma, snapshotIndex, appendCh,
                 installs, mFailures, mPanic, notMember>>

\* case <-a.tickCh: an append starts unless one is marked as running.
MemberTick ==
    /\ ~mPanic
    /\ ~appending
    /\ appending' = TRUE
    /\ \E next \in {NextRpc(mLog, queue)} :
          /\ rpcs' = Append(rpcs, next.rpc)
          /\ queue' = next.queue
          /\ readerIndex' = next.reader
    /\ UNCHANGED <<mLog, mSnapshot, pLog, pSnapshot, ma, snapshotIndex,
                 appendCh, installs, mFailures, mPanic, notMember>>

\* case <-a.heartbeatCh: an empty append request is sent in a goroutine of
\* its own, whatever the appending flag says.
MemberHeartbeat ==
    /\ ~mPanic
    /\ Len(rpcs) + Len(appendCh) < MaxInflight
    /\ rpcs' = Append(rpcs, EmptyRequest(ma))
    /\ UNCHANGED <<mLog, mSnapshot, pLog, pSnapshot, ma, snapshotIndex,
                 appending, appendCh, installs, queue, readerIndex,
                 mFailures, mPanic, notMember>>

\* The leader's state machine takes a snapshot at a committed index.
TakeSnapshot(i) ==
    /\ ~mPanic
    /\ i > mSnapshot
    /\ i <= Len(mLog)
    /\ mSnapshot' = i
    /\ UNCHANGED <<mLog, pLog, pSnapshot, ma, snapshotIndex, appending, rpcs,
                 appendCh, installs, queue, readerIndex, mFailures, mPanic,
                 notMember>>

\* The k-th request in flight ends and its handler runs.  An install is
\* answered with status OK (handleInstallResponse).  An append ends with an
\* error (handleAppendError: the failure is counted) or is answered; the
\* peer that accepts it reports as lastLogIndex the index of the last
\* entry of the request or the last index of its own log.
\* handleAppendResponse clears the failure count and stores the indexes;
\* after a request with entries it reads the term of the entry at position
\* lastLogIndex - prevLogIndex - 1 of the request, which fails when there
\* is no such position.  Every handler that returns sends nextIndex on
\* appendCh.
Deliver(k, outcome) ==
    /\ ~mPanic
    /\ k \in 1..Len(rpcs)
    /\ rpcs' = SubSeq(rpcs, 1, k - 1) \o SubSeq(rpcs, k + 1, Len(rpcs))
    /\ IF rpcs[k].kind = "install"
       THEN /\ outcome = "last"
            /\ pSnapshot' = rpcs[k].index
            /\ pLog' = PeerCompact(pLog, rpcs[k].index)
            /\ snapshotIndex' = rpcs[k].index
            /\ installs' = Append(installs, rpcs[k].index)
            /\ appendCh' = Append(appendCh, ma.nextIndex)
            /\ mFailures' = 0
            /\ UNCHANGED <<ma, mPanic>>
       ELSE IF outcome = "error"
       THEN /\ mFailures < MaxMemberFailures
            /\ mFailures' = mFailures + 1
            /\ appendCh' = Append(appendCh, ma.nextIndex)
            /\ UNCHANGED <<pSnapshot, pLog, snapshotIndex, installs, ma,
                           mPanic>>
       ELSE \E answer \in {PeerResponse(pLog, rpcs[k])} :
            \E l \in {IF answer.succeeded THEN PeerAppend(pLog, rpcs[k])
                      ELSE pLog} :
            \E response \in {IF outcome = "own"
                             THEN [answer EXCEPT !.lastLogIndex = PeerLast(l)]
                             ELSE answer} :
               /\ outcome = "own" =>
                     answer.succeeded /\ response # answer
               /\ pLog' = l
               /\ mFailures' = 0
               /\ IF /\ response.succeeded
                     /\ Len(rpcs[k].entries) > 0
                     /\ response.lastLogIndex - rpcs[k].prevLogIndex
                           \notin 1..Len(rpcs[k].entries)
                  THEN /\ mPanic' = TRUE
                       /\ ma' = [ma EXCEPT
                                    !.matchIndex = response.lastLogIndex,
                                    !.nextIndex = response.lastLogIndex + 1]
                       /\ UNCHANGED appendCh
                  ELSE /\ ma' = AppenderAfter(ma, rpcs[k], response)
                       /\ appendCh' = Append(appendCh, ma'.nextIndex)
                       /\ UNCHANGED mPanic
               /\ UNCHANGED <<pSnapshot, snapshotIndex, installs>>
    /\ UNCHANGED <<mLog, mSnapshot, appending, queue, readerIndex, notMember>>

\* case nextIndex := <-a.appendCh: the append is marked as finished, and
\* the next one starts if the log has an entry at nextIndex.
MemberAppendCh ==
    /\ ~mPanic
    /\ appendCh # <<>>
    /\ appendCh' = Tail(appendCh)
    /\ IF Len(mLog) >= Head(appendCh)
       THEN \E next \in {NextRpc(mLog, queue)} :
               /\ appending' = TRUE
               /\ rpcs' = Append(rpcs, next.rpc)
               /\ queue' = next.queue
               /\ readerIndex' = next.reader
       ELSE /\ appending' = FALSE
            /\ UNCHANGED <<rpcs, queue, readerIndex>>
    /\ UNCHANGED <<mLog, mSnapshot, pLog, pSnapshot, ma, snapshotIndex,
                 installs, mFailures, mPanic, notMember>>

NextMember ==
    \/ MemberEntry
    \/ MemberTick
    \/ MemberHeartbeat
    \/ \E i \in 1..MaxMemberLog : TakeSnapshot(i)
    \/ \E k \in 1..(MaxInflight + 1), outcome \in {"last", "own", "error"} :
          Deliver(k, outcome)
    \/ MemberAppendCh

InitSpecMember ==
    /\ InitMember
    /\ InitWorker({FALSE})
    /\ InitSnapshot
    /\ InitAppender(0) /\ InitQuery /\ InitCluster /\ InitTerm
    /\ InitRoleIdle
    /\ InitQuorumIdle

\* The transport answers every request, the worker handles every event it
\* can receive, and the ticker keeps ticking.
FairSpecMember ==
    /\ InitSpecMember
    /\ [][NextMember]_vars
    /\ WF_vars(\E k \in 1..(MaxInflight + 1) : Deliver(k, "last"))
    /\ WF_vars(MemberAppendCh)
    /\ WF_vars(MemberTick)

(***************************************************************************)
(* Properties of the member appender.                                      *)
(***************************************************************************)
\* C14 (reconvergence): while the leader stays leader and every request is
\* answered, the peer's matchIndex is again and again the leader's last
\* log index.
C14_Reconverges == []<>(ma.matchIndex = Len(mLog))

\* C15 (snapshot catch-up): an install is sent only for a snapshot beyond
\* the peer's snapshotIndex and at or beyond its nextIndex, no snapshot is
\* installed twice, and after an install the replication of entries
\* reaches the leader's last log index.
C15_SnapshotCatchUp ==
    /\ [](\A i, j \in 1..Len(installs) : i < j => installs[i] < installs[j])
    /\ [](snapshotIndex > 0 => <>(ma.matchIndex = Len(mLog)))

\* C16 (per-peer FIFO): at most one append or install to the peer is in
\* flight.
C16_OneInFlight == Len(rpcs) <= 1

\* The request the step adds, when the step adds a request built by
\* append() (a tick, an entry or appendCh; a heartbeat leaves the flag and
\* the channel alone).
Built ==
    IF /\ Len(rpcs') > Len(rpcs)
       /\ (appending' # appending \/ appendCh' # appendCh)
       /\ rpcs'[Len(rpcs')].kind = "append"
    THEN {rpcs'[Len(rpcs')]}
    ELSE {}

\* C28 (prevTerm tracks the log): every request a step builds has the
\* previous index nextIndex - 1 and, as previous term, the term of the
\* leader's log entry at that index (0 at index 0).
C28_PrevTermTracksLog ==
    [][\A request \in Built :
          /\ request.prevLogIndex = ma.nextIndex - 1
          /\ request.prevLogIndex <= Len(mLog)
          /\ request.prevLogTerm =
                IF request.prevLogIndex = 0 THEN 0
                ELSE mLog[request.prevLogIndex].term]_vars

\* C29 (prevTerm update stays in bounds): the appender never reads the term
\* at a position that the entries of the answered request do not have.
C29_UpdateInBounds == ~mPanic

\* C30 (batch equals the log slice): the entries of every request a step
\* builds are the leader's log entries from nextIndex on, in order; and
\* with no failure counted and nextIndex at most the last index the
\* request carries an entry.
C30_BatchIsLogSlice ==
    [][\A request \in Built :
          /\ request.entries =
                SubSeq(mLog', ma.nextIndex,
                       ma.nextIndex + Len(request.entries) - 1)
          /\ (mFailures = 0 /\ ma.nextIndex <= Len(mLog'))
                => Len(request.entries) >= 1]_vars

\* C32 (the commit index stays inside the log): whatever last index the
\* peer reports when it accepts a request, the peer's matchIndex, which the
\* commit event carries to commitIndex(), is at most the last index of the
\* leader's log.
C32_MatchInsideLog == ma.matchIndex <= Len(mLog)

(***************************************************************************)
(* The in-memory snapshot store (snapshot.go).  A snapshot's bytes field   *)
(* is a Go slice: a length over a backing array.  The writer's buffer is   *)
(* created over that slice and grows its own length; the snapshot's slice  *)
(* keeps the length it was created with.                                   *)
(***************************************************************************)
\* The highest snapshot index and the most bytes written to one snapshot.
MaxSnapshotIndex == 2
MaxSnapshotBytes == 2

\* newSnapshot(index, timestamp): a snapshot with bytes of length 0 is
\* stored under its index and made the current snapshot.
NewSnapshot(index) ==
    /\ snapshots' = MapPut(snapshots, index,
                           [len |-> 0, array |-> <<>>, writer |-> "none"])
    /\ currentSnapshot' = index
    /\ UNCHANGED notSnapshot

\* CurrentSnapshot(): the store's currentSnapshot field.
CurrentSnapshot == currentSnapshot

\* snapshot.Writer(): a memoryWriter over bytes.NewBuffer(s.bytes), that is
\* a buffer that starts with the snapshot's (empty) slice.
SnapshotWriter(index) ==
    /\ index \in DOMAIN snapshots
    /\ snapshots[index].writer = "none"
    /\ snapshots' = [snapshots EXCEPT ![index].writer = "open"]
    /\ UNCHANGED <<currentSnapshot, notSnapshot>>

\* memoryWriter.Write(p) with one byte: the buffer appends the byte after
\* its own content, in the backing array; the length of the snapshot's
\* bytes field is not written.
SnapshotWrite(index, b) ==
    /\ index \in DOMAIN snapshots
    /\ snapshots[index].writer = "open"
    /\ Len(snapshots[index].array) < MaxSnapshotBytes
    /\ snapshots' = [snapshots EXCEPT ![index].array = Append(@, b)]
    /\ UNCHANGED <<currentSnapshot, notSnapshot>>

\* memoryWriter.Close(): returns nil.
SnapshotClose(index) ==
    /\ index \in DOMAIN snapshots
    /\ snapshots[index].writer = "open"
    /\ snapshots' = [snapshots EXCEPT ![index].writer = "closed"]
    /\ UNCHANGED <<currentSnapshot, notSnapshot>>

\* snapshot.Reader() read to the end: bytes.NewReader(s.bytes) yields the
\* bytes of the snapshot's slice, the first len bytes of the backing array.
SnapshotReader(snapshot) == SubSeq(snapshot.array, 1, snapshot.len)

NextSnapshot ==
    \/ \E index \in 1..MaxSnapshotIndex : NewSnapshot(index)
    \/ \E index \in 1..MaxSnapshotIndex : SnapshotWriter(index)
    \/ \E index \in 1..MaxSnapshotIndex, b \in 0..1 : SnapshotWrite(index, b)
    \/ \E index \in 1..MaxSnapshotIndex : SnapshotClose(index)

InitSpecSnapshot == Init

SpecSnapshot == InitSpecSnapshot /\ [][NextSnapshot]_vars

(***************************************************************************)
(* A leader's raftAppender with one peer, from start() to stop(), and the  *)
(* peer's memberAppender worker with the goroutines it starts.  start()    *)
(* holds mu while processCommits runs.  Every send on an unbuffered        *)
(* channel is one step taken together with its receiver.  The leader role  *)
(* that calls start() and stop(), becomeFollower and the cluster's clients *)
(* are not in the sources: the role calls start() in a goroutine when it   *)
(* starts and stop() when it stops, becomeFollower stops the role in the   *)
(* calling goroutine, and a request ends in a response or an error.        *)
(***************************************************************************)
\* minBackoffFailureCount and maxHeartbeatWait; the clock ticks once per
\* election timeout, and an election timeout is half a minute.
MinBackoffFailureCount == 5
MaxHeartbeatWait == 2

\* The last tick of the clock and the highest failure count.
MaxWorkerTime == 5
MaxFailures == 6

\* heartbeatWaitTime of append(): failureCount^2 election timeouts, at most
\* maxHeartbeatWait.
HeartbeatWaitTime(count) ==
    Min(count * count * ElectionTimeout, MaxHeartbeatWait)

\* go f(): the goroutine takes the first free place.
Go(ts, at, start) ==
    LET k == CHOOSE j \in 1..MaxTasks :
                 ts[j].pc = "none" /\ \A i \in 1..(j - 1) : ts[i].pc # "none"
    IN  [ts EXCEPT ![k] = [pc |-> at, start |-> start]]

\* The leader role starts: go appender.start().
LeaderStart ==
    /\ wloop = "new"
    /\ wloop' = "lock"
    /\ UNCHANGED <<wmu, wstop, worker, wActive, closed, wAppending,
                 failureCount, firstFailureTime, wNow, tasks, wcaller,
                 wInstallDue, wWaiting, wlock, notWorker>>

\* raftAppender.start: takes mu, starts the worker of the member appender
\* (which sets active) and runs processCommits, still holding mu.
StartLock ==
    /\ wloop = "lock"
    /\ wmu = None
    /\ wmu' = "start"
    /\ wloop' = "select"
    /\ worker' = "select"
    /\ wActive' = TRUE
    /\ UNCHANGED <<wstop, closed, wAppending, failureCount, firstFailureTime,
                 wNow, tasks, wcaller, wInstallDue, wWaiting, wlock, notWorker>>

\* The leader role stops: appender.stop() is called.
LeaderStop ==
    /\ wloop # "new"
    /\ wstop = "idle"
    /\ wstop' = "lock"
    /\ UNCHANGED <<wmu, wloop, worker, wActive, closed, wAppending,
                 failureCount, firstFailureTime, wNow, tasks, wcaller,
                 wInstallDue, wWaiting, wlock, notWorker>>

\* raftAppender.stop and memberAppender.stop.  With mu taken, the member
\* appender is marked inactive and its three channels are closed (a
\* goroutine waiting to send on one of them panics); then the worker has to
\* receive from the member's stopped channel, then processCommits from the
\* appender's, and mu is released.
StopRun ==
    /\ IF wstop = "lock"
       THEN /\ wmu = None
            /\ wmu' = "stop"
            /\ wActive' = FALSE
            /\ closed' = TRUE
            /\ wcaller' = IF wcaller \in {"entryCh", "heartbeatCh"}
                          THEN "panic" ELSE wcaller
            /\ tasks' = [k \in 1..MaxTasks |->
                            IF tasks[k].pc = "appendCh"
                            THEN [tasks[k] EXCEPT !.pc = "panic"]
                            ELSE tasks[k]]
            /\ wstop' = "member"
            /\ UNCHANGED <<worker, wloop>>
       ELSE IF wstop = "member"
       THEN /\ worker = "select"
            /\ worker' = "exited"
            /\ wstop' = "loop"
            /\ UNCHANGED <<wmu, wActive, closed, wcaller, tasks, wloop>>
       ELSE /\ wstop = "loop"
            /\ wloop = "select"
            /\ wloop' = "exited"
            /\ wstop' = "returned"
            /\ wmu' = None
            /\ UNCHANGED <<wActive, closed, wcaller, tasks, worker>>
    /\ UNCHANGED <<wAppending, failureCount, firstFailureTime, wNow,
                 wInstallDue, wWaiting, wlock, notWorker>>

\* raftAppender.append(entry) or heartbeat() is called: append sends the
\* entry on the member's entryCh, heartbeat first locks mu.
Call(kind) ==
    /\ wcaller = "idle"
    /\ wloop # "new"
    /\ wcaller' = IF kind = "heartbeat" THEN "lock"
                  ELSE IF closed THEN "panic" ELSE "entryCh"
    /\ UNCHANGED <<wmu, wloop, wstop, worker, wActive, closed, wAppending,
                 failureCount, firstFailureTime, wNow, tasks, wInstallDue,
                 wWaiting, wlock, notWorker>>

\* heartbeat() under mu: the future is pushed, mu is released and the time
\* is sent on the member's heartbeatCh.
CallLock ==
    /\ wcaller = "lock"
    /\ wmu = None
    /\ wcaller' = IF closed THEN "panic" ELSE "heartbeatCh"
    /\ UNCHANGED <<wmu, wloop, wstop, worker, wActive, closed, wAppending,
                 failureCount, firstFailureTime, wNow, tasks, wInstallDue,
                 wWaiting, wlock, notWorker>>

\* processEvents receives from entryCh: the entry of a caller, or the zero
\* value of a closed channel; an append is started unless one is running.
\* The caller of append() goes on to receive from its commit channel; when
\* commitIndex is waiting to send the index on that channel, the caller
\* receives it and returns nil, and commitIndex releases the server's lock
\* and returns to commit.
WorkerEntry ==
    /\ worker = "select"
    /\ closed \/ wcaller = "entryCh"
    /\ wAppending \/ \E j \in 1..MaxTasks : tasks[j].pc = "none"
    /\ wcaller' = IF wcaller # "entryCh" THEN wcaller
                  ELSE IF wloop = "notify" THEN "ok" ELSE "commit"
    /\ wloop' = IF wcaller = "entryCh" /\ wloop = "notify"
                THEN "commitTime" ELSE wloop
    /\ wlock' = IF wcaller = "entryCh" /\ wloop = "notify"
                THEN [wlock EXCEPT !.writer = None] ELSE wlock
    /\ wAppending' = TRUE
    /\ tasks' = IF wAppending THEN tasks ELSE Go(tasks, "append", ZeroTime)
    /\ UNCHANGED <<wmu, wstop, worker, wActive, closed, failureCount,
                 firstFailureTime, wNow, wInstallDue, wWaiting, notWorker>>

\* processEvents receives from appendCh the next index a goroutine sends
\* in requeue() (or zero from the closed channel): appending is cleared,
\* and an append is started when the log reaches that index.
WorkerAppendCh(k, behind) ==
    /\ worker = "select"
    /\ tasks[k].pc = "appendCh"
    /\ wAppending' = behind
    /\ tasks' = [tasks EXCEPT ![k] = [pc |-> IF behind THEN "append"
                                             ELSE "none",
                                      start |-> ZeroTime]]
    /\ UNCHANGED <<wmu, wloop, wstop, worker, wActive, closed, failureCount,
                 firstFailureTime, wNow, wcaller, wInstallDue, wWaiting,
                 wlock, notWorker>>

\* processEvents receives from heartbeatCh the time heartbeat() sends (or
\* the zero value of the closed channel).
WorkerHeartbeat ==
    /\ worker = "select"
    /\ closed \/ wcaller = "heartbeatCh"
    /\ \E j \in 1..MaxTasks : tasks[j].pc = "none"
    /\ wcaller' = IF wcaller = "heartbeatCh" THEN "wait" ELSE wcaller
    /\ worker' = "heartbeat"
    /\ UNCHANGED <<wmu, wloop, wstop, wActive, closed, wAppending, failureCount,
                 firstFailureTime, wNow, tasks, wInstallDue, wWaiting, wlock,
                 notWorker>>

\* The heartbeatCh case: the worker builds the request in
\* emptyAppendRequest(), which reads the server's term, leader and
\* commitIndex and takes no lock, and sends it in a goroutine of its own.
WorkerEmptyRequest ==
    /\ worker = "heartbeat"
    /\ worker' = "select"
    /\ tasks' = Go(tasks, "request", wNow)
    /\ UNCHANGED <<wmu, wloop, wstop, wActive, closed, wAppending, failureCount,
                 firstFailureTime, wNow, wcaller, wInstallDue, wWaiting,
                 wlock, notWorker>>

\* processEvents receives from tickCh: an append is started unless one is
\* running.
WorkerTick ==
    /\ worker = "select"
    /\ ~closed
    /\ ~wAppending
    /\ \E j \in 1..MaxTasks : tasks[j].pc = "none"
    /\ wAppending' = TRUE
    /\ tasks' = Go(tasks, "append", ZeroTime)
    /\ UNCHANGED <<wmu, wloop, wstop, worker, wActive, closed, failureCount,
                 firstFailureTime, wNow, wcaller, wInstallDue, wWaiting,
                 wlock, notWorker>>

\* The clock advances.
WorkerClock ==
    /\ wNow < MaxWorkerTime
    /\ wNow' = wNow + 1
    /\ UNCHANGED <<wmu, wloop, wstop, worker, wActive, closed, wAppending,
                 failureCount, firstFailureTime, tasks, wcaller, wInstallDue,
                 wWaiting, wlock, notWorker>>

\* memberAppender.append: with minBackoffFailureCount failures or more a
\* request is sent only when more than heartbeatWaitTime has passed since
\* the first failure, and otherwise append returns; with fewer failures
\* the snapshot is installed when it is due and a request is sent when not.
\* nextAppendRequest and newInstallRequest build the request under the
\* server's read lock, which they wait for while a writer holds the lock.
TaskAppend(k) ==
    /\ tasks[k].pc = "append"
    /\ IF failureCount >= MinBackoffFailureCount
       THEN IF wNow - firstFailureTime > HeartbeatWaitTime(failureCount)
            THEN /\ wlock.writer = None
                 /\ tasks' = [tasks EXCEPT ![k] = [pc |-> "request",
                                                   start |-> wNow]]
                 /\ wWaiting' = "no"
            ELSE /\ tasks' = [tasks EXCEPT ![k].pc = "none"]
                 /\ wWaiting' = "backoff"
       ELSE /\ wlock.writer = None
            /\ tasks' = [tasks EXCEPT ![k] =
                            [pc |-> IF wInstallDue THEN "install"
                                    ELSE "request",
                             start |-> wNow]]
            /\ wWaiting' = "no"
    /\ UNCHANGED <<wmu, wloop, wstop, worker, wActive, closed, wAppending,
                 failureCount, firstFailureTime, wNow, wcaller, wInstallDue,
                 wlock, notWorker>>

\* fail(startTime) up to its send on failCh: the first failure stores its
\* time, every failure is counted.
Fail(count, first, start) ==
    [count |-> count + 1, first |-> IF count = 0 THEN start ELSE first]

\* sendAppendRequest: no client (return), a response that succeeded (the
\* commit event is sent next), a response that rejected (its term is read
\* under the server's read lock and is not newer; requeue), or an error or
\* a status that is not OK (fail, whose event is sent next).
TaskRequest(k, outcome) ==
    /\ tasks[k].pc = "request"
    /\ outcome \in {"noclient", "succeeded", "rejected", "error"}
    /\ outcome = "error" => failureCount < MaxFailures
    /\ outcome = "rejected" => wlock.writer = None
    /\ tasks' = [tasks EXCEPT ![k].pc =
                    CASE outcome = "noclient" -> "none"
                      [] outcome = "succeeded" -> "commitCh"
                      [] outcome = "rejected" ->
                            IF closed THEN "panic" ELSE "appendCh"
                      [] outcome = "error" -> "failCh"]
    /\ IF outcome = "noclient"
       THEN UNCHANGED <<failureCount, firstFailureTime>>
       ELSE IF outcome = "error"
       THEN \E f \in {Fail(failureCount, firstFailureTime, tasks[k].start)} :
               failureCount' = f.count /\ firstFailureTime' = f.first
       ELSE failureCount' = 0 /\ UNCHANGED firstFailureTime
    /\ UNCHANGED <<wmu, wloop, wstop, worker, wActive, closed, wAppending, wNow,
                 wcaller, wInstallDue, wWaiting, wlock, notWorker>>

\* sendInstallRequests: no client (return), a response with status OK
\* (the snapshot index is stored, the commit event is sent next), a
\* response with another status (handleInstallFailure does nothing), or
\* an error (fail, whose event is sent next).
TaskInstall(k, outcome) ==
    /\ tasks[k].pc = "install"
    /\ outcome \in {"noclient", "succeeded", "failure", "error"}
    /\ outcome = "error" => failureCount < MaxFailures
    /\ tasks' = [tasks EXCEPT ![k].pc =
                    CASE outcome \in {"noclient", "failure"} -> "none"
                      [] outcome = "succeeded" -> "commitCh"
                      [] outcome = "error" -> "failCh"]
    /\ wInstallDue' = (wInstallDue /\ outcome # "succeeded")
    /\ wWaiting' = IF outcome = "failure" THEN "install" ELSE wWaiting
    /\ IF outcome \in {"noclient", "failure"}
       THEN UNCHANGED <<failureCount, firstFailureTime>>
       ELSE IF outcome = "error"
       THEN \E f \in {Fail(failureCount, firstFailureTime, tasks[k].start)} :
               failureCount' = f.count /\ firstFailureTime' = f.first
       ELSE failureCount' = 0 /\ UNCHANGED firstFailureTime
    /\ UNCHANGED <<wmu, wloop, wstop, worker, wActive, closed, wAppending, wNow,
                 wcaller, wlock, notWorker>>

\* processCommits receives an event of the member appender, whose
\* goroutine goes on to requeue().  From failCh, failTime: the time is
\* compared with lastQuorumTime.  From commitCh, commit: commitIndex takes
\* the server's write lock and sets the commit index, and when the new
\* commit index covers the entry of a call of append() whose channel is in
\* commitChannels, the index is sent on that channel under the lock (the
\* caller receives it once the worker has taken its entry); then
\* commitTime: the time is newer than the member's zero time and mu is
\* locked; it is held by start(), in this goroutine.  lastQuorumTime is
\* written after that, so it keeps the time newAppender gave it.
LoopEvent(k, covers) ==
    /\ wloop = "select"
    /\ tasks[k].pc \in {"failCh", "commitCh"}
    /\ covers => /\ tasks[k].pc = "commitCh"
                 /\ wActive
                 /\ wcaller \in {"entryCh", "commit"}
    /\ tasks' = [tasks EXCEPT ![k].pc = IF closed THEN "panic"
                                        ELSE "appendCh"]
    /\ wloop' = IF tasks[k].pc = "failCh"
                THEN IF tasks[k].start - Created > ElectionTimeout * 2
                     THEN "failTime" ELSE "select"
                ELSE IF ~wActive THEN "select"
                ELSE IF covers /\ wcaller = "entryCh" THEN "notify"
                ELSE "commitTime"
    /\ wlock' = IF wloop' = "notify"
                THEN [wlock EXCEPT !.writer = "loop"] ELSE wlock
    /\ wcaller' = IF covers /\ wcaller = "commit" THEN "ok" ELSE wcaller
    /\ UNCHANGED <<wmu, wstop, worker, wActive, closed, wAppending,
                 failureCount, firstFailureTime, wNow, wInstallDue, wWaiting,
                 notWorker>>

\* failTime later than two election timeouts after lastQuorumTime: the
\* leader is cleared with setLeader("") and the member becomes follower,
\* with no lock of the server taken; that stops the leader role and calls
\* stop() in this goroutine, where it waits for mu.
LoopStepDown ==
    /\ wloop = "failTime"
    /\ wloop' = "stop"
    /\ UNCHANGED <<wmu, wstop, worker, wActive, closed, wAppending,
                 failureCount, firstFailureTime, wNow, tasks, wcaller,
                 wInstallDue, wWaiting, wlock, notWorker>>

NextWorker ==
    \/ LeaderStart
    \/ StartLock
    \/ LeaderStop
    \/ StopRun
    \/ \E kind \in {"append", "heartbeat"} : Call(kind)
    \/ CallLock
    \/ WorkerEntry
    \/ \E k \in 1..MaxTasks, behind \in BOOLEAN : WorkerAppendCh(k, behind)
    \/ WorkerHeartbeat
    \/ WorkerEmptyRequest
    \/ WorkerTick
    \/ WorkerClock
    \/ \E k \in 1..MaxTasks : TaskAppend(k)
    \/ \E k \in 1..MaxTasks,
          outcome \in {"noclient", "succeeded", "rejected", "error"} :
          TaskRequest(k, outcome)
    \/ \E k \in 1..MaxTasks,
          outcome \in {"noclient", "succeeded", "failure", "error"} :
          TaskInstall(k, outcome)
    \/ \E k \in 1..MaxTasks, covers \in BOOLEAN : LoopEvent(k, covers)
    \/ LoopStepDown

InitSpecWorker ==
    /\ InitWorker(BOOLEAN)
    /\ InitSnapshot
    /\ InitMemberIdle
    /\ InitQuorumIdle
    /\ InitAppender(0) /\ logLastIndex = 0
    /\ InitQuery /\ InitCluster /\ InitTerm
    /\ InitRoleIdle

\* Every goroutine that can take a step takes it, the ticker ticks and the
\* clock advances; the calls of the leader role and of the clients are
\* free.
FairSpecWorker ==
    /\ InitSpecWorker
    /\ [][NextWorker]_vars
    /\ WF_vars(StartLock)
    /\ WF_vars(StopRun)
    /\ WF_vars(CallLock)
    /\ WF_vars(WorkerEntry)
    /\ WF_vars(\E k \in 1..MaxTasks, behind \in BOOLEAN :
                  WorkerAppendCh(k, behind))
    /\ WF_vars(WorkerHeartbeat)
    /\ WF_vars(WorkerEmptyRequest)
    /\ WF_vars(WorkerTick)
    /\ WF_vars(WorkerClock)
    /\ WF_vars(\E k \in 1..MaxTasks : TaskAppend(k))
    /\ WF_vars(\E k \in 1..MaxTasks,
                  outcome \in {"noclient", "succeeded", "rejected", "error"} :
                  TaskRequest(k, outcome))
    /\ WF_vars(\E k \in 1..MaxTasks,
                  outcome \in {"noclient", "succeeded", "failure", "error"} :
                  TaskInstall(k, outcome))
    /\ WF_vars(\E k \in 1..MaxTasks, covers \in BOOLEAN :
                  LoopEvent(k, covers))
    /\ WF_vars(LoopStepDown)

(***************************************************************************)
(* Properties of the follower's timers after Stop.                         *)
(***************************************************************************)
\* C21 (a timer firing after Stop is ignored): once the role has been
\* stopped, no step clears the leader, starts a round of poll requests or
\* asks for the transition to candidate, and no goroutine of a timer arms
\* a timer.
C21_StoppedTimerIgnored ==
    [][(~active /\ ~active' /\ pc["start"] # "idle") =>
          /\ raftLeader' = raftLeader
          /\ \A p \in DOMAIN polls : polls'[p] = "start" => polls[p] = "start"
          /\ (heartbeatTimer' = "armed" /\ heartbeatTimer # "armed") =>
                \A g \in {"timeout", "count"} : pc'[g] = pc[g]
          /\ setRole' \subseteq setRole
          /\ transitions' = transitions]_vars

\* The heartbeat timer fired, the role was stopped, and the timer's
\* goroutine then ran under the lock without starting a poll.
C21_Witness ==
    /\ ~active
    /\ fRole = "stopped"
    /\ heartbeatTimer = "fired"
    /\ watch = "gone"
    /\ pc["count"] = "idle"
    /\ pc["append"] = "idle"

(***************************************************************************)
(* Properties of the snapshot store.                                       *)
(***************************************************************************)
\* C24 (current snapshot is the highest): CurrentSnapshot() is the snapshot
\* with the highest index among the snapshots created so far, and none when
\* no snapshot was created.
C24_CurrentIsHighest ==
    /\ DOMAIN snapshots = {} => CurrentSnapshot = 0
    /\ \A index \in DOMAIN snapshots : CurrentSnapshot >= index

\* C25 (snapshot round trip): once the writer of a snapshot is closed, a
\* reader of the snapshot returns exactly the bytes written through the
\* writer.
C25_RoundTrip ==
    \A index \in DOMAIN snapshots :
        snapshots[index].writer = "closed" =>
            SnapshotReader(snapshots[index]) = snapshots[index].array

(***************************************************************************)
(* Properties of the appender's stop, back-off and install failure.        *)
(***************************************************************************)
\* C22 (no send on a closed channel): no caller of append() or heartbeat()
\* and no goroutine of the member appender sends on entryCh, appendCh or
\* heartbeatCh after stop() closed it, and the worker never waits to
\* receive from the closed channels.
C22_NoSendOnClosed ==
    /\ wcaller # "panic"
    /\ \A k \in 1..MaxTasks : tasks[k].pc # "panic"
    /\ ~(closed /\ worker = "select")

\* C23 (leader exit terminates): once stop() has been called, by the role
\* or from the step-down of failTime, eventually the worker of the member
\* appender and the processCommits loop have exited and the call returns.
C23_StopReturns ==
    (wstop # "idle" \/ wloop = "stop")
        ~> (worker = "exited" /\ wloop = "exited")

\* C26 (back-off suppresses and then resumes): with minBackoffFailureCount
\* failures or more no request and no install is started before
\* heartbeatWaitTime has passed since the first failure; and once an
\* attempt was suppressed and more than that time has passed, a new
\* attempt is started (as long as the leader runs and is not stopped).
C26_BackoffResumes ==
    /\ [][\A k \in 1..MaxTasks :
             (/\ tasks'[k].pc \in {"request", "install"}
              /\ tasks[k].pc \notin {"request", "install"}
              /\ failureCount >= MinBackoffFailureCount)
                => wNow - firstFailureTime
                      >= HeartbeatWaitTime(failureCount)]_vars
    /\ []((/\ wWaiting = "backoff"
           /\ wNow - firstFailureTime > HeartbeatWaitTime(failureCount))
          => <>(wWaiting # "backoff" \/ wstop # "idle" \/ wloop # "select"))

\* C27 (install failure waits for the next tick): after an install that
\* ended with an error status a new attempt is started (as long as the
\* leader runs and is not stopped).
C27_InstallRetried ==
    (wWaiting = "install")
        ~> (wWaiting # "install" \/ wstop # "idle" \/ wloop # "select")

\* C33 (commit processing never blocks itself): whenever processCommits
\* has received a commit event and commitTime is to take the appender's
\* mutex, the loop eventually is back at its select.
C33_CommitLoopReturns ==
    (wloop = "commitTime") ~> (wloop = "select")

\* C34 (append() always returns): when the appender is stopped, by the role
\* or by the step-down of failTime, while a caller of append() waits to
\* hand over its entry or waits on its commit channel, the call eventually
\* returns, with nil or with the error.
C34_AppendReturns ==
    (/\ wcaller \in {"entryCh", "commit"}
     /\ (wstop # "idle" \/ wloop = "stop"))
        ~> (wcaller \in {"ok", "failed"})

\* C31 (lock discipline): the goroutine that writes the server's leader and
\* role in the step-down of failTime, or the commit index in commitIndex,
\* holds the server's write lock, and the worker that reads the term, the
\* leader and the commit index for the empty request of a heartbeat holds
\* the read lock or the write lock.
C31_LockDiscipline ==
    /\ wloop \in {"failTime", "notify"} => wlock.writer = "loop"
    /\ worker = "heartbeat" =>
          wlock.writer = "worker" \/ "worker" \in wlock.readers

============================================================================
